---- MODULE Spec2Model ----
(***************************************************************************)
(* Assembly geometry analysis of onshape-mcp: interference detection and   *)
(* positioning (src/onshape_mcp/analysis) together with the assembly       *)
(* manager they call (src/onshape_mcp/api/assemblies.py).                  *)
(*                                                                         *)
(* Python floats are modelled as binary floating-point numbers with a      *)
(* Precision-bit mantissa, an unbounded exponent and round-to-nearest,     *)
(* ties-to-even: IEEE 754 double arithmetic scaled down from 53 bits.  A   *)
(* float is the pair <<m, e>> of value m * 2^e, with m odd, or <<0, 0>>.   *)
(***************************************************************************)
EXTENDS Integers, Sequences, FiniteSets, TLC

\* Mantissa width of the modelled floats (53 for a Python float).
Precision == 10

(***************************************************************************)
(* Floating-point arithmetic                                               *)
(***************************************************************************)
Abs(n) == IF n < 0 THEN -n ELSE n

\* The number of bits of n >= 0.
RECURSIVE BitLen(_)
BitLen(n) ==
    IF n >= 16 THEN 4 + BitLen(n \div 16)
    ELSE IF n >= 8 THEN 4
    ELSE IF n >= 4 THEN 3
    ELSE IF n >= 2 THEN 2
    ELSE n

RECURSIVE StripTwos(_, _)
StripTwos(m, e) ==
    IF m = 0 THEN <<0, 0>>
    ELSE IF m % 2 = 0 THEN StripTwos(m \div 2, e + 1)
    ELSE <<m, e>>

\* The float nearest to sgn * (mag + sticky) * 2^e, where sticky says that the
\* exact value lies strictly above mag (and below mag + 1).
RoundFloat(sgn, mag, e, sticky) ==
    LET len == BitLen(mag)
    IN  IF len <= Precision THEN StripTwos(sgn * mag, e)
        ELSE LET sh   == len - Precision
                 q    == mag \div (2 ^ sh)
                 r    == mag % (2 ^ sh)
                 half == 2 ^ (sh - 1)
                 up   == \/ r > half
                         \/ r = half /\ (sticky \/ q % 2 = 1)
             IN  StripTwos(sgn * (IF up THEN q + 1 ELSE q), e + sh)

FZero == <<0, 0>>
FOne == <<1, 0>>
FromInt(n) == RoundFloat(IF n < 0 THEN -1 ELSE 1, Abs(n), 0, FALSE)
FNeg(a) == <<-a[1], a[2]>>

FMul(a, b) ==
    IF a[1] = 0 \/ b[1] = 0 THEN FZero
    ELSE RoundFloat(IF (a[1] < 0) = (b[1] < 0) THEN 1 ELSE -1,
                    Abs(a[1]) * Abs(b[1]), a[2] + b[2], FALSE)

FAdd(a, b) ==
    IF a[1] = 0 THEN b
    ELSE IF b[1] = 0 THEN a
    ELSE LET hi   == IF a[2] >= b[2] THEN a ELSE b
             lo   == IF a[2] >= b[2] THEN b ELSE a
             tophi == hi[2] + BitLen(Abs(hi[1]))
             toplo == lo[2] + BitLen(Abs(lo[1]))
         IN  IF tophi - toplo > Precision + 2 THEN hi
             ELSE LET s == hi[1] * (2 ^ (hi[2] - lo[2])) + lo[1]
                  IN  RoundFloat(IF s < 0 THEN -1 ELSE 1, Abs(s), lo[2], FALSE)

FSub(a, b) == FAdd(a, FNeg(b))

FLt(a, b) == FSub(a, b)[1] < 0
FGt(a, b) == FLt(b, a)
FMin(a, b) == IF FLt(b, a) THEN b ELSE a
FMax(a, b) == IF FGt(b, a) THEN b ELSE a

\* Long division n / d of positive integers down to Precision + 2 quotient bits.
RECURSIVE DivBits(_, _, _, _)
DivBits(q, r, d, e) ==
    IF BitLen(q) >= Precision + 2 THEN <<q, r, e>>
    ELSE LET r2 == 2 * r
         IN  IF r2 >= d THEN DivBits(2 * q + 1, r2 - d, d, e - 1)
             ELSE DivBits(2 * q, r2, d, e - 1)

\* The float nearest to the rational n / d (a decimal literal such as 0.0254).
RatToFloat(n, d) ==
    IF n = 0 THEN FZero
    ELSE LET qre == DivBits(n \div d, n % d, d, 0)
         IN  RoundFloat(1, qre[1], qre[3], qre[2] # 0)

FDiv(a, b) ==
    IF a[1] = 0 THEN FZero
    ELSE LET q == RatToFloat(Abs(a[1]), Abs(b[1]))
         IN  <<(IF (a[1] < 0) = (b[1] < 0) THEN 1 ELSE -1) * q[1],
               q[2] + a[2] - b[2]>>

(***************************************************************************)
(* interference.py: constants, BoundingBox, transform math, overlap test   *)
(***************************************************************************)
INCHES_TO_METERS == RatToFloat(254, 10000)
METERS_TO_INCHES == FDiv(FOne, INCHES_TO_METERS)
DefaultTolerance == RatToFloat(1, 100000000)

\* Python's None where a list or a tuple is expected.
None == <<>>

BoundingBox(lx, ly, lz, hx, hy, hz) ==
    [low_x |-> lx, low_y |-> ly, low_z |-> lz,
     high_x |-> hx, high_y |-> hy, high_z |-> hz]

\* BoundingBox.from_api_response
from_api_response(data) ==
    BoundingBox(data.lowX, data.lowY, data.lowZ, data.highX, data.highY, data.highZ)

\* The list [1, 0, 0, 0, 0, 1, 0, 0, 0, 0, 1, 0, 0, 0, 0, 1]; matrix[k] of the
\* source is matrix[k + 1] here.
identity ==
    <<FOne, FZero, FZero, FZero,
      FZero, FOne, FZero, FZero,
      FZero, FZero, FOne, FZero,
      FZero, FZero, FZero, FOne>>

\* transform_point without the translation column.
transform_point_untranslated(matrix, point) ==
    LET px == point[1]
        py == point[2]
        pz == point[3]
        row(k) == FAdd(FAdd(FMul(matrix[k + 1], px), FMul(matrix[k + 2], py)),
                       FMul(matrix[k + 3], pz))
    IN  <<row(0), row(4), row(8)>>

transform_point(matrix, point) ==
    LET px == point[1]
        py == point[2]
        pz == point[3]
        row(k) == FAdd(FAdd(FAdd(FMul(matrix[k + 1], px), FMul(matrix[k + 2], py)),
                            FMul(matrix[k + 3], pz)),
                       matrix[k + 4])
    IN  <<row(0), row(4), row(8)>>

\* min(xs) and max(xs) of the members of a non-empty list.
ListMin(xs) == CHOOSE x \in xs : \A y \in xs : ~FLt(y, x)

ListMax(xs) == CHOOSE x \in xs : \A y \in xs : ~FGt(y, x)

\* The eight corners of a box.
Corners(b) ==
    {<<x, y, z>> : x \in {b.low_x, b.high_x}, y \in {b.low_y, b.high_y},
                   z \in {b.low_z, b.high_z}}

\* The lists of the source are held as the sets of their members: only their
\* least and greatest members are used.
\* get_world_aabb over the low and the high corner only.
get_world_aabb_two_corners(local_bbox, transform) ==
    LET low  == <<local_bbox.low_x, local_bbox.low_y, local_bbox.low_z>>
        high == <<local_bbox.high_x, local_bbox.high_y, local_bbox.high_z>>
        transformed == {transform_point(transform, c) : c \in {low, high}}
        xs == {p[1] : p \in transformed}
        ys == {p[2] : p \in transformed}
        zs == {p[3] : p \in transformed}
    IN  BoundingBox(ListMin(xs), ListMin(ys), ListMin(zs),
                    ListMax(xs), ListMax(ys), ListMax(zs))

\* get_world_aabb taking the images of the low and the high corner for the
\* low and the high of the world box.
get_world_aabb_corner_images(local_bbox, transform) ==
    LET low  == transform_point(transform,
                    <<local_bbox.low_x, local_bbox.low_y, local_bbox.low_z>>)
        high == transform_point(transform,
                    <<local_bbox.high_x, local_bbox.high_y, local_bbox.high_z>>)
    IN  BoundingBox(low[1], low[2], low[3], high[1], high[2], high[3])

\* get_world_aabb with min written for max in the high corner.
get_world_aabb_min_for_high(local_bbox, transform) ==
    LET transformed == {transform_point(transform, c) : c \in Corners(local_bbox)}
        xs == {p[1] : p \in transformed}
        ys == {p[2] : p \in transformed}
        zs == {p[3] : p \in transformed}
    IN  BoundingBox(ListMin(xs), ListMin(ys), ListMin(zs),
                    ListMin(xs), ListMin(ys), ListMin(zs))

get_world_aabb(local_bbox, transform) ==
    LET transformed == {transform_point(transform, c) : c \in Corners(local_bbox)}
        xs == {p[1] : p \in transformed}
        ys == {p[2] : p \in transformed}
        zs == {p[3] : p \in transformed}
    IN  BoundingBox(ListMin(xs), ListMin(ys), ListMin(zs),
                    ListMax(xs), ListMax(ys), ListMax(zs))

\* check_overlap with an overlap equal to the tolerance counted as real.
check_overlap_inclusive(box_a, box_b, tolerance) ==
    LET overlap_x == FSub(FMin(box_a.high_x, box_b.high_x), FMax(box_a.low_x, box_b.low_x))
        overlap_y == FSub(FMin(box_a.high_y, box_b.high_y), FMax(box_a.low_y, box_b.low_y))
        overlap_z == FSub(FMin(box_a.high_z, box_b.high_z), FMax(box_a.low_z, box_b.low_z))
    IN  IF ~FLt(overlap_x, tolerance) /\ ~FLt(overlap_y, tolerance) /\ ~FLt(overlap_z, tolerance)
        THEN <<overlap_x, overlap_y, overlap_z>>
        ELSE None

\* check_overlap reporting an overlap along any one axis.
check_overlap_any_axis(box_a, box_b, tolerance) ==
    LET overlap_x == FSub(FMin(box_a.high_x, box_b.high_x), FMax(box_a.low_x, box_b.low_x))
        overlap_y == FSub(FMin(box_a.high_y, box_b.high_y), FMax(box_a.low_y, box_b.low_y))
        overlap_z == FSub(FMin(box_a.high_z, box_b.high_z), FMax(box_a.low_z, box_b.low_z))
    IN  IF FGt(overlap_x, tolerance) \/ FGt(overlap_y, tolerance) \/ FGt(overlap_z, tolerance)
        THEN <<overlap_x, overlap_y, overlap_z>>
        ELSE None

\* check_overlap taking the extent of the two boxes together for the overlap.
check_overlap_union_extent(box_a, box_b, tolerance) ==
    LET overlap_x == FSub(FMax(box_a.high_x, box_b.high_x), FMin(box_a.low_x, box_b.low_x))
        overlap_y == FSub(FMax(box_a.high_y, box_b.high_y), FMin(box_a.low_y, box_b.low_y))
        overlap_z == FSub(FMax(box_a.high_z, box_b.high_z), FMin(box_a.low_z, box_b.low_z))
    IN  IF FGt(overlap_x, tolerance) /\ FGt(overlap_y, tolerance) /\ FGt(overlap_z, tolerance)
        THEN <<overlap_x, overlap_y, overlap_z>>
        ELSE None

\* A triple of per-axis overlaps, or None.
check_overlap(box_a, box_b, tolerance) ==
    LET overlap_x == FSub(FMin(box_a.high_x, box_b.high_x), FMax(box_a.low_x, box_b.low_x))
        overlap_y == FSub(FMin(box_a.high_y, box_b.high_y), FMax(box_a.low_y, box_b.low_y))
        overlap_z == FSub(FMin(box_a.high_z, box_b.high_z), FMax(box_a.low_z, box_b.low_z))
    IN  IF FGt(overlap_x, tolerance) /\ FGt(overlap_y, tolerance) /\ FGt(overlap_z, tolerance)
        THEN <<overlap_x, overlap_y, overlap_z>>
        ELSE None

(***************************************************************************)
(* positioning.py: pure functions                                          *)
(***************************************************************************)
\* A Python str is the sequence of its characters.
UpperCase == <<"A", "B", "C", "D", "E", "F", "G", "H", "I", "J", "K", "L", "M",
               "N", "O", "P", "Q", "R", "S", "T", "U", "V", "W", "X", "Y", "Z">>
LowerCase == <<"a", "b", "c", "d", "e", "f", "g", "h", "i", "j", "k", "l", "m",
               "n", "o", "p", "q", "r", "s", "t", "u", "v", "w", "x", "y", "z">>
Whitespace == {" ", "\t", "\n", "\r"}

\* str.lower()
lower(str) ==
    [k \in 1..Len(str) |->
        IF \E u \in 1..Len(UpperCase) : UpperCase[u] = str[k]
        THEN LowerCase[CHOOSE u \in 1..Len(UpperCase) : UpperCase[u] = str[k]]
        ELSE str[k]]

\* str.lstrip(): only the leading whitespace removed.
strip_leading(str) ==
    LET keep == {k \in 1..Len(str) : str[k] \notin Whitespace}
    IN  IF keep = {} THEN <<>>
        ELSE SubSeq(str, CHOOSE k \in keep : \A j \in keep : k <= j, Len(str))

\* str.strip(): leading and trailing whitespace removed.
strip(str) ==
    LET keep == {k \in 1..Len(str) : str[k] \notin Whitespace}
    IN  IF keep = {} THEN <<>>
        ELSE SubSeq(str, CHOOSE k \in keep : \A j \in keep : k <= j,
                         CHOOSE k \in keep : \A j \in keep : k >= j)

front == <<"f", "r", "o", "n", "t">>
back == <<"b", "a", "c", "k">>
left == <<"l", "e", "f", "t">>
right == <<"r", "i", "g", "h", "t">>
top == <<"t", "o", "p">>
bottom == <<"b", "o", "t", "t", "o", "m">>
FACE_NAMES == {front, back, left, right, top, bottom}

\* occurrence_transforms.get / dict.get on a map held as a function.
DictGet(dict, key, default) == IF key \in DOMAIN dict THEN dict[key] ELSE default

\* The dict built by scanning the occurrences in order: a later occurrence with
\* the same top-level path replaces an earlier one.  missing is what an
\* occurrence without a "transform" key contributes.
RECURSIVE TopLevelTransforms(_, _)
TopLevelTransforms(occurrences, missing) ==
    IF occurrences = <<>> THEN <<>>
    ELSE LET n    == Len(occurrences)
             rest == TopLevelTransforms(SubSeq(occurrences, 1, n - 1), missing)
             occ  == occurrences[n]
             dom  == DOMAIN rest \cup {occ.path[1]}
         IN  IF Len(occ.path) = 1
             THEN [k \in dom |->
                     IF k = occ.path[1]
                     THEN (IF occ.has_transform THEN occ.transform ELSE missing)
                     ELSE rest[k]]
             ELSE rest

extract_occurrence_transforms(assembly_data) ==
    TopLevelTransforms(assembly_data.occurrences, identity)

\* get_position_from_transform reading the first column of the matrix.
get_position_from_transform_first_column(transform) ==
    <<transform[1], transform[5], transform[9]>>

get_position_from_transform(transform) ==
    <<transform[4], transform[8], transform[12]>>

build_absolute_translation_matrix(x_inches, y_inches, z_inches) ==
    <<FOne, FZero, FZero, FMul(x_inches, INCHES_TO_METERS),
      FZero, FOne, FZero, FMul(y_inches, INCHES_TO_METERS),
      FZero, FZero, FOne, FMul(z_inches, INCHES_TO_METERS),
      FZero, FZero, FZero, FOne>>

\* The new position, or the ValueError raised for a face outside FACE_NAMES.
compute_aligned_position(source_local_bbox, source_current_pos_meters, target_world_aabb, face) ==
    LET cur_x == source_current_pos_meters[1]
        cur_y == source_current_pos_meters[2]
        cur_z == source_current_pos_meters[3]
    IN  IF face \notin FACE_NAMES THEN [raised |-> "ValueError", pos |-> None]
        ELSE IF face = front
        THEN [raised |-> "", pos |->
                <<cur_x, FSub(target_world_aabb.low_y, source_local_bbox.high_y), cur_z>>]
        ELSE IF face = back
        THEN [raised |-> "", pos |->
                <<cur_x, FSub(target_world_aabb.high_y, source_local_bbox.low_y), cur_z>>]
        ELSE IF face = left
        THEN [raised |-> "", pos |->
                <<FSub(target_world_aabb.low_x, source_local_bbox.high_x), cur_y, cur_z>>]
        ELSE IF face = right
        THEN [raised |-> "", pos |->
                <<FSub(target_world_aabb.high_x, source_local_bbox.low_x), cur_y, cur_z>>]
        ELSE IF face = bottom
        THEN [raised |-> "", pos |->
                <<cur_x, cur_y, FSub(target_world_aabb.low_z, source_local_bbox.high_z)>>]
        ELSE [raised |-> "", pos |->
                <<cur_x, cur_y, FSub(target_world_aabb.high_z, source_local_bbox.low_z)>>]

(***************************************************************************)
(* State                                                                   *)
(***************************************************************************)
VARIABLES
    asm,        \* the assembly held by Onshape: [instances, occurrences]
    partBoxes,  \* the Part Geometry Source: (doc, element, part) -> bounding box
    manager,    \* what is passed as assembly_manager
    tasks,      \* the invocations of the tools, each with its locals
    calls,      \* the calls made to the collaborators, in order
    posts       \* the bodies AssemblyManager has posted to the Onshape API

vars == <<asm, partBoxes, manager, tasks, calls, posts>>

\* The document_id argument of every tool call.
DocumentId == "d"

Falsy(v) == v \in {"None", ""}

\* inst.get("documentId", document_id), inst.get("elementId"), inst.get("partId")
CacheKey(inst) ==
    <<IF inst.documentId = "None" THEN DocumentId ELSE inst.documentId,
      inst.elementId, inst.partId>>

\* The arguments of a call; is_relative is the keyword argument as the caller
\* wrote it, "absent" when the caller wrote none.
NoArgs ==
    [instance_id |-> "", x_inches |-> FZero, y_inches |-> FZero, z_inches |-> FZero,
     source_instance_id |-> "", target_instance_id |-> "", face |-> <<>>,
     occurrences |-> <<>>, is_relative |-> "absent"]

\* The text of an exception: what it says and the values it names.
NoMessage == [text |-> "", face |-> <<>>, instance_id |-> "", allowed |-> {}]

NoRequest == [isRelative |-> TRUE, occurrences |-> <<>>]

NoResult ==
    [total_instances |-> 0, total_pairs_checked |-> 0, overlaps |-> <<>>, warnings |-> <<>>]

IdleTask ==
    [op |-> "", pc |-> "idle", args |-> NoArgs, face |-> <<>>,
     assembly_data |-> None,
     instances |-> <<>>, occurrence_transforms |-> <<>>, bbox_cache |-> <<>>, i |-> 0,
     world_bboxes |-> <<>>,
     source_inst |-> None, target_inst |-> None,
     source_local_bbox |-> None, target_world_aabb |-> None,
     source_current_pos |-> None, new_pos_meters |-> None, new_pos_inches |-> None,
     transform |-> None,
     request |-> NoRequest,
     out |-> <<>>, body |-> <<>>, raised |-> "", message |-> NoMessage,
     returned |-> FALSE,
     result |-> NoResult, positions |-> <<>>, confirmation |-> <<>>,
     value |-> None,
     answers |-> <<>>]

\* A call to a collaborator: the method, and its arguments as far as they vary.
Call(fn, key, occurrences, is_relative) ==
    [fn |-> fn, key |-> key, occurrences |-> occurrences, is_relative |-> is_relative]

CallDefinition == Call("get_assembly_definition", None, <<>>, "absent")
CallBoundingBox(key) == Call("get_part_bounding_box", key, <<>>, "absent")
CallTransform(occurrences, is_relative) ==
    Call("transform_occurrences", None, occurrences, is_relative)

\* The task goes on to await the call c.
Await(t, pc, c) == [t EXCEPT !.pc = pc, !.out = Append(@, c)]

Raise(t, exc) == [t EXCEPT !.pc = "done", !.raised = exc]

RaiseValueError(t, message) ==
    [t EXCEPT !.pc = "done", !.raised = "ValueError", !.message = message]

\* The await the task stands at completes, with a value (ok) or with an
\* exception: answers keeps, in order, what each await of the task met, and
\* the loop index the task had then.
Answered(t, ok) ==
    [t EXCEPT !.answers = Append(@, [await |-> t.pc, ok |-> ok, i |-> t.i])]

(***************************************************************************)
(* check_assembly_interference                                             *)
(***************************************************************************)
\* The fetch loop passing over no instance for its type or suppression.
NextFetch_any_type(instances, bbox_cache, from) ==
    LET wanted == {n \in from..Len(instances) :
                      /\ ~(Falsy(instances[n].elementId) \/ Falsy(instances[n].partId))
                      /\ CacheKey(instances[n]) \notin DOMAIN bbox_cache}
    IN  IF wanted = {} THEN 0 ELSE CHOOSE n \in wanted : \A m \in wanted : n <= m

\* The next instance, from position from on, for which the fetch loop awaits
\* get_part_bounding_box; 0 when the loop runs to its end.
NextFetch(instances, bbox_cache, from) ==
    LET wanted == {n \in from..Len(instances) :
                      /\ ~(instances[n].type # "Part" \/ instances[n].suppressed)
                      /\ ~(Falsy(instances[n].elementId) \/ Falsy(instances[n].partId))
                      /\ CacheKey(instances[n]) \notin DOMAIN bbox_cache}
    IN  IF wanted = {} THEN 0 ELSE CHOOSE n \in wanted : \A m \in wanted : n <= m

\* The instances the second loop keeps, in order.
RECURSIVE Resolved(_, _)
Resolved(instances, bbox_cache) ==
    IF instances = <<>> THEN <<>>
    ELSE LET n    == Len(instances)
             rest == Resolved(SubSeq(instances, 1, n - 1), bbox_cache)
             inst == instances[n]
         IN  IF inst.type # "Part" \/ inst.suppressed THEN rest
             ELSE IF CacheKey(inst) \notin DOMAIN bbox_cache THEN rest
             ELSE Append(rest, inst)

OverlapInfo(inst_a, inst_b, overlap) ==
    LET ox == FMul(overlap[1], METERS_TO_INCHES)
        oy == FMul(overlap[2], METERS_TO_INCHES)
        oz == FMul(overlap[3], METERS_TO_INCHES)
    IN  [instance_a_name |-> inst_a.name, instance_a_id |-> inst_a.id,
         instance_b_name |-> inst_b.name, instance_b_id |-> inst_b.id,
         overlap_x_inches |-> ox, overlap_y_inches |-> oy, overlap_z_inches |-> oz,
         overlap_volume_cubic_inches |-> FMul(FMul(ox, oy), oz)]

\* The pair scan counting a pair only when it overlaps.
RECURSIVE CheckAllPairs_counting_overlaps(_, _, _, _)
CheckAllPairs_counting_overlaps(world_bboxes, i, j, result) ==
    IF i > Len(world_bboxes) THEN result
    ELSE IF j > Len(world_bboxes)
    THEN CheckAllPairs_counting_overlaps(world_bboxes, i + 1, i + 2, result)
    ELSE LET overlap == check_overlap(world_bboxes[i][2], world_bboxes[j][2],
                                      DefaultTolerance)
         IN  CheckAllPairs_counting_overlaps(world_bboxes, i, j + 1,
                IF overlap # None
                THEN [result EXCEPT
                        !.total_pairs_checked = @ + 1,
                        !.overlaps =
                            Append(@, OverlapInfo(world_bboxes[i][1], world_bboxes[j][1], overlap))]
                ELSE result)

\* for i in range(len(world_bboxes)): for j in range(i + 1, len(world_bboxes))
RECURSIVE CheckAllPairs(_, _, _, _)
CheckAllPairs(world_bboxes, i, j, result) ==
    IF i > Len(world_bboxes) THEN result
    ELSE IF j > Len(world_bboxes) THEN CheckAllPairs(world_bboxes, i + 1, i + 2, result)
    ELSE LET counted == [result EXCEPT !.total_pairs_checked = @ + 1]
             overlap == check_overlap(world_bboxes[i][2], world_bboxes[j][2],
                                      DefaultTolerance)
         IN  CheckAllPairs(world_bboxes, i, j + 1,
                IF overlap # None
                THEN [counted EXCEPT !.overlaps =
                        Append(@, OverlapInfo(world_bboxes[i][1], world_bboxes[j][1], overlap))]
                ELSE counted)

\* Lines 206-259: the world boxes, then the pair scan.  get_world_aabb raises
\* TypeError on the None a transform-less occurrence left in the map.
InterferenceFinish(t) ==
    LET kept == Resolved(t.instances, t.bbox_cache)
        tr(inst) == DictGet(t.occurrence_transforms, inst.id, identity)
    IN  IF \E n \in 1..Len(kept) : tr(kept[n]) = None
        THEN Raise(t, "TypeError")
        ELSE LET world_bboxes ==
                     [n \in 1..Len(kept) |->
                         <<kept[n], get_world_aabb(t.bbox_cache[CacheKey(kept[n])], tr(kept[n]))>>]
             IN  [t EXCEPT !.pc = "done", !.returned = TRUE,
                           !.world_bboxes = world_bboxes,
                           !.result = CheckAllPairs(world_bboxes, 1, 2,
                                         [NoResult EXCEPT !.total_instances = Len(world_bboxes)])]

\* The fetch loop from instance from on, up to its next await or to the return.
InterferenceFetchLoop(t, from) ==
    LET n == NextFetch(t.instances, t.bbox_cache, from)
    IN  IF n # 0
        THEN Await([t EXCEPT !.i = n], "get_part_bounding_box",
                   CallBoundingBox(CacheKey(t.instances[n])))
        ELSE InterferenceFinish(t)

\* InterferenceStart returning early for an empty assembly only.
InterferenceStart_empty_only(t, assembly_data) ==
    LET instances == assembly_data.instances
    IN  IF Len(instances) < 1
        THEN [t EXCEPT !.pc = "done", !.returned = TRUE, !.instances = instances,
                       !.result = [NoResult EXCEPT
                           !.total_instances = Len(instances),
                           !.warnings = <<"Need at least 2 instances for interference check.">>]]
        ELSE InterferenceFetchLoop(
                [t EXCEPT !.instances = instances,
                          !.occurrence_transforms =
                              TopLevelTransforms(assembly_data.occurrences, None)], 1)

\* Lines 164-180, run when get_assembly_definition has returned assembly_data.
InterferenceStart(t, assembly_data) ==
    LET instances == assembly_data.instances
    IN  IF Len(instances) < 2
        THEN [t EXCEPT !.pc = "done", !.returned = TRUE, !.instances = instances,
                       !.result = [NoResult EXCEPT
                           !.total_instances = Len(instances),
                           !.warnings = <<"Need at least 2 instances for interference check.">>]]
        ELSE InterferenceFetchLoop(
                [t EXCEPT !.instances = instances,
                          !.occurrence_transforms =
                              TopLevelTransforms(assembly_data.occurrences, None)], 1)

(***************************************************************************)
(* get_assembly_positions                                                  *)
(***************************************************************************)
InstancePositionInfo(inst, pos_meters, world_bbox) ==
    [name |-> inst.name, instance_id |-> inst.id,
     position_x_inches |-> FMul(pos_meters[1], METERS_TO_INCHES),
     position_y_inches |-> FMul(pos_meters[2], METERS_TO_INCHES),
     position_z_inches |-> FMul(pos_meters[3], METERS_TO_INCHES),
     size_x_inches |-> FMul(FSub(world_bbox.high_x, world_bbox.low_x), METERS_TO_INCHES),
     size_y_inches |-> FMul(FSub(world_bbox.high_y, world_bbox.low_y), METERS_TO_INCHES),
     size_z_inches |-> FMul(FSub(world_bbox.high_z, world_bbox.low_z), METERS_TO_INCHES),
     world_low_x_inches |-> FMul(world_bbox.low_x, METERS_TO_INCHES),
     world_low_y_inches |-> FMul(world_bbox.low_y, METERS_TO_INCHES),
     world_low_z_inches |-> FMul(world_bbox.low_z, METERS_TO_INCHES),
     world_high_x_inches |-> FMul(world_bbox.high_x, METERS_TO_INCHES),
     world_high_y_inches |-> FMul(world_bbox.high_y, METERS_TO_INCHES),
     world_high_z_inches |-> FMul(world_bbox.high_z, METERS_TO_INCHES)]

\* f"{x:.3f}": the number as a count of thousandths, the nearest one, a tie
\* going to the even count.
Thousandths(x) ==
    LET num == Abs(x[1]) * 1000
        sgn == IF x[1] < 0 THEN -1 ELSE 1
    IN  IF x[2] >= 0 THEN sgn * num * (2 ^ x[2])
        ELSE IF -x[2] >= 30 THEN 0
        ELSE LET q    == num \div (2 ^ (-x[2]))
                 r    == num % (2 ^ (-x[2]))
                 half == 2 ^ (-x[2] - 1)
             IN  sgn * (IF r > half \/ (r = half /\ q % 2 = 1) THEN q + 1 ELSE q)

\* The suggestion naming the last of the axes with the least penetration.
Suggestion_last_axis(ov) ==
    LET min_val == FMin(FMin(ov.overlap_x_inches, ov.overlap_y_inches), ov.overlap_z_inches)
    IN  [amount |-> Thousandths(min_val),
         axis |-> IF min_val = ov.overlap_z_inches THEN "Z"
                  ELSE IF min_val = ov.overlap_y_inches THEN "Y"
                  ELSE "X"]

\* Lines 302-314: the axis of the smallest overlap and the amount printed.
Suggestion(ov) ==
    LET min_val == FMin(FMin(ov.overlap_x_inches, ov.overlap_y_inches), ov.overlap_z_inches)
    IN  [amount |-> Thousandths(min_val),
         axis |-> IF min_val = ov.overlap_x_inches THEN "X"
                  ELSE IF min_val = ov.overlap_y_inches THEN "Y"
                  ELSE "Z"]

\* The interference report as its parts: the warnings, the counts, the line
\* that says whether overlaps were found, and for each overlap its names,
\* the numbers as they are printed and the suggestion.
format_interference_result(result) ==
    [warnings |-> result.warnings,
     checked |-> <<result.total_instances, result.total_pairs_checked>>,
     text |-> IF result.overlaps = <<>>
              THEN "No overlaps detected. All parts are properly spaced."
              ELSE "FOUND OVERLAP(S):",
     found |-> Len(result.overlaps),
     rows |-> [n \in 1..Len(result.overlaps) |->
                 LET ov == result.overlaps[n]
                 IN  [number |-> n,
                      names |-> <<ov.instance_a_name, ov.instance_b_name>>,
                      penetration |-> <<Thousandths(ov.overlap_x_inches),
                                        Thousandths(ov.overlap_y_inches),
                                        Thousandths(ov.overlap_z_inches)>>,
                      volume |-> Thousandths(ov.overlap_volume_cubic_inches),
                      suggestion |-> Suggestion(ov)]]]

\* The report as its parts: the line that follows the header, and for each
\* position its name, id and the numbers as they are printed.
format_positions_report(positions) ==
    IF positions = <<>>
    THEN [text |-> "No instances found in assembly.", found |-> 0, rows |-> <<>>]
    ELSE [text |-> "Found instance(s):", found |-> Len(positions),
          rows |-> [n \in 1..Len(positions) |->
                      LET p == positions[n]
                      IN  [name |-> p.name, instance_id |-> p.instance_id,
                           position |-> <<Thousandths(p.position_x_inches),
                                          Thousandths(p.position_y_inches),
                                          Thousandths(p.position_z_inches)>>,
                           size |-> <<Thousandths(p.size_x_inches),
                                      Thousandths(p.size_y_inches),
                                      Thousandths(p.size_z_inches)>>,
                           world_bounds |->
                               <<Thousandths(p.world_low_x_inches),
                                 Thousandths(p.world_high_x_inches),
                                 Thousandths(p.world_low_y_inches),
                                 Thousandths(p.world_high_y_inches),
                                 Thousandths(p.world_low_z_inches),
                                 Thousandths(p.world_high_z_inches)>>]]]

\* Lines 232-268: one row per instance the second loop keeps.
PositionsFinish(t) ==
    LET kept == Resolved(t.instances, t.bbox_cache)
        tr(inst) == DictGet(t.occurrence_transforms, inst.id, identity)
        world_bboxes ==
            [n \in 1..Len(kept) |->
                <<kept[n], get_world_aabb(t.bbox_cache[CacheKey(kept[n])], tr(kept[n]))>>]
        positions ==
            [n \in 1..Len(kept) |->
                InstancePositionInfo(kept[n],
                    get_position_from_transform(tr(kept[n])), world_bboxes[n][2])]
    IN  [t EXCEPT !.pc = "done", !.returned = TRUE,
                  !.world_bboxes = world_bboxes,
                  !.positions = positions,
                  !.value = format_positions_report(positions)]

PositionsFetchLoop(t, from) ==
    LET n == NextFetch(t.instances, t.bbox_cache, from)
    IN  IF n # 0
        THEN Await([t EXCEPT !.i = n], "get_part_bounding_box",
                   CallBoundingBox(CacheKey(t.instances[n])))
        ELSE PositionsFinish(t)

\* Lines 207-210, run when get_assembly_definition has returned assembly_data.
PositionsStart(t, assembly_data) ==
    PositionsFetchLoop(
        [t EXCEPT !.instances = assembly_data.instances,
                  !.occurrence_transforms = extract_occurrence_transforms(assembly_data)], 1)

(***************************************************************************)
(* api/assemblies.py: AssemblyManager.transform_occurrences                *)
(***************************************************************************)
\* def transform_occurrences(self, document_id, workspace_id, element_id,
\* occurrences): a call that passes is_relative does not bind.  Otherwise the
\* body handed to client.post.
transform_occurrences(occurrences, is_relative) ==
    IF is_relative # "absent" THEN [raised |-> "TypeError", data |-> None]
    ELSE IF occurrences = <<>> THEN [raised |-> "IndexError", data |-> None]
    ELSE [raised |-> "",
          data |-> [isRelative |-> TRUE,
                    occurrences |->
                        [n \in 1..Len(occurrences) |-> [path |-> occurrences[n].path]],
                    transform |-> occurrences[1].transform]]

\* What a posted body asks of Onshape: the one transform for every path.
PostedRequest(data) ==
    [isRelative |-> data.isRelative,
     occurrences |->
        [n \in 1..Len(data.occurrences) |->
            [path |-> data.occurrences[n].path, transform |-> data.transform]]]

\* An Assembly Data Source other than AssemblyManager, taking
\* apply_transform(document_id, workspace_id, element_id, occurrences, absolute).
apply_transform(occurrences, is_relative) ==
    [isRelative |-> is_relative # "False", occurrences |-> occurrences]

\* Row-major product of two 4x4 matrices.
MatMul(a, b) ==
    [n \in 1..16 |->
        LET r == (n - 1) \div 4
            c == (n - 1) % 4
        IN  FAdd(FAdd(FAdd(FMul(a[4 * r + 1], b[c + 1]),
                           FMul(a[4 * r + 2], b[c + 5])),
                      FMul(a[4 * r + 3], b[c + 9])),
                 FMul(a[4 * r + 4], b[c + 13]))]

\* The assembly after Onshape has carried out a request: each occurrence a
\* path names gets the transform given for it, composed with the one it has
\* when the request is relative.
Transformed(assembly, request) ==
    [assembly EXCEPT !.occurrences =
        [n \in 1..Len(assembly.occurrences) |->
            LET occ  == assembly.occurrences[n]
                hits == {m \in 1..Len(request.occurrences) :
                            request.occurrences[m].path = occ.path}
            IN  IF hits = {} THEN occ
                ELSE LET given ==
                             request.occurrences[
                                 CHOOSE m \in hits : \A h \in hits : m >= h].transform
                     IN  [occ EXCEPT
                            !.has_transform = TRUE,
                            !.transform =
                                IF request.isRelative
                                THEN MatMul(given, IF occ.has_transform
                                                   THEN occ.transform ELSE identity)
                                ELSE given]]]

\* assembly_manager.transform_occurrences(document_id, workspace_id,
\* element_id, occurrences, is_relative=...) up to the await it reaches.
ApplyTransform(t, occurrences, is_relative) ==
    LET called == [t EXCEPT !.out = Append(@, CallTransform(occurrences, is_relative))]
    IN  IF manager = "AssemblyManager"
        THEN LET r == transform_occurrences(occurrences, is_relative)
             IN  IF r.raised # "" THEN Raise(called, r.raised)
                 ELSE [called EXCEPT !.pc = "post",
                                     !.request = PostedRequest(r.data),
                                     !.body = Append(@, r.data)]
        ELSE [called EXCEPT !.pc = "apply_transform",
                            !.request = apply_transform(occurrences, is_relative)]

(***************************************************************************)
(* set_absolute_position                                                   *)
(***************************************************************************)
\* Lines 296-300, up to the await.
SetAbsolutePositionStart(t) ==
    LET a == t.args
        transform == build_absolute_translation_matrix(a.x_inches, a.y_inches, a.z_inches)
        occurrences == <<[path |-> <<a.instance_id>>, transform |-> transform]>>
    IN  ApplyTransform(
            [t EXCEPT !.transform = transform],
            occurrences, "False")

(***************************************************************************)
(* align_to_face                                                           *)
(***************************************************************************)
\* Lines 335-343: the face check, then the definition fetch.
AlignStart(t) ==
    LET face == strip(lower(t.args.face))
    IN  IF face \notin FACE_NAMES
        THEN RaiseValueError(t, [NoMessage EXCEPT !.text = "Invalid face. Must be one of",
                                                  !.face = face,
                                                  !.allowed = FACE_NAMES])
        ELSE Await([t EXCEPT !.face = face], "get_assembly_definition", CallDefinition)

\* The positions in instances of the instances with the id.
Matches(instances, id) == {n \in 1..Len(instances) : instances[n].id = id}

\* for inst in instances: the last instance with the id is the one kept.
LastMatch(instances, id) ==
    instances[CHOOSE n \in Matches(instances, id) :
                  \A m \in Matches(instances, id) : n >= m]

\* The lookup that tells of a missing target before a missing source.
AlignLookup_target_first(t, assembly_data) ==
    LET instances == assembly_data.instances
        a  == t.args
        t1 == [t EXCEPT !.assembly_data = assembly_data,
                        !.instances = instances,
                        !.occurrence_transforms =
                            extract_occurrence_transforms(assembly_data)]
    IN  IF Matches(instances, a.target_instance_id) = {}
        THEN RaiseValueError(t1, [NoMessage EXCEPT
                                    !.text = "Target instance not found in assembly",
                                    !.instance_id = a.target_instance_id])
        ELSE IF Matches(instances, a.source_instance_id) = {}
        THEN RaiseValueError(t1, [NoMessage EXCEPT
                                    !.text = "Source instance not found in assembly",
                                    !.instance_id = a.source_instance_id])
        ELSE LET source_inst == LastMatch(instances, a.source_instance_id)
                 target_inst == LastMatch(instances, a.target_instance_id)
             IN  Await([t1 EXCEPT !.source_inst = source_inst,
                                  !.target_inst = target_inst],
                       "source_bounding_box", CallBoundingBox(CacheKey(source_inst)))

\* Lines 344-379, run when get_assembly_definition has returned assembly_data.
AlignLookup(t, assembly_data) ==
    LET instances == assembly_data.instances
        a  == t.args
        t1 == [t EXCEPT !.assembly_data = assembly_data,
                        !.instances = instances,
                        !.occurrence_transforms =
                            extract_occurrence_transforms(assembly_data)]
    IN  IF Matches(instances, a.source_instance_id) = {}
        THEN RaiseValueError(t1, [NoMessage EXCEPT
                                    !.text = "Source instance not found in assembly",
                                    !.instance_id = a.source_instance_id])
        ELSE IF Matches(instances, a.target_instance_id) = {}
        THEN RaiseValueError(t1, [NoMessage EXCEPT
                                    !.text = "Target instance not found in assembly",
                                    !.instance_id = a.target_instance_id])
        ELSE LET source_inst == LastMatch(instances, a.source_instance_id)
                 target_inst == LastMatch(instances, a.target_instance_id)
             IN  Await([t1 EXCEPT !.source_inst = source_inst,
                                  !.target_inst = target_inst],
                       "source_bounding_box", CallBoundingBox(CacheKey(source_inst)))

\* Lines 380-384, run when the source's bounding box has come.
AlignSource(t, source_bbox_data) ==
    Await([t EXCEPT !.source_local_bbox = from_api_response(source_bbox_data)],
          "target_bounding_box", CallBoundingBox(CacheKey(t.target_inst)))

\* Lines 385-390, when the target's bounding box has come: the target's
\* world box.
AlignTargetWorld(t, target_bbox_data) ==
    LET target_local_bbox == from_api_response(target_bbox_data)
        target_transform  ==
            DictGet(t.occurrence_transforms, t.args.target_instance_id, identity)
    IN  get_world_aabb(target_local_bbox, target_transform)

\* Lines 392-393
AlignSourcePosition(t) ==
    get_position_from_transform(
        DictGet(t.occurrence_transforms, t.args.source_instance_id, identity))

\* The alignment asking for its matrix to be applied relative to the
\* transform the source has.
AlignFinish_relative(t, target_world_aabb, source_current_pos, aligned) ==
    IF aligned.raised # "" THEN Raise(t, aligned.raised)
    ELSE LET new_pos_meters == aligned.pos
             new_x_in == FMul(new_pos_meters[1], METERS_TO_INCHES)
             new_y_in == FMul(new_pos_meters[2], METERS_TO_INCHES)
             new_z_in == FMul(new_pos_meters[3], METERS_TO_INCHES)
             transform == build_absolute_translation_matrix(new_x_in, new_y_in, new_z_in)
             occurrences == <<[path |-> <<t.args.source_instance_id>>,
                               transform |-> transform]>>
         IN  ApplyTransform(
                [t EXCEPT !.target_world_aabb = target_world_aabb,
                          !.source_current_pos = source_current_pos,
                          !.new_pos_meters = new_pos_meters,
                          !.new_pos_inches = <<new_x_in, new_y_in, new_z_in>>,
                          !.transform = transform],
                occurrences, "True")

\* Lines 395-409: the new position, in inches and back in meters, and the
\* transform call.
AlignFinish(t, target_world_aabb, source_current_pos, aligned) ==
    IF aligned.raised # "" THEN Raise(t, aligned.raised)
    ELSE LET new_pos_meters == aligned.pos
             new_x_in == FMul(new_pos_meters[1], METERS_TO_INCHES)
             new_y_in == FMul(new_pos_meters[2], METERS_TO_INCHES)
             new_z_in == FMul(new_pos_meters[3], METERS_TO_INCHES)
             transform == build_absolute_translation_matrix(new_x_in, new_y_in, new_z_in)
             occurrences == <<[path |-> <<t.args.source_instance_id>>,
                               transform |-> transform]>>
         IN  ApplyTransform(
                [t EXCEPT !.target_world_aabb = target_world_aabb,
                          !.source_current_pos = source_current_pos,
                          !.new_pos_meters = new_pos_meters,
                          !.new_pos_inches = <<new_x_in, new_y_in, new_z_in>>,
                          !.transform = transform],
                occurrences, "False")

(***************************************************************************)
(* The collaborators' answers                                              *)
(***************************************************************************)
\* PartStudioManager.get_part_bounding_box can fail for any part, and can
\* answer only for a part it knows.
CanAnswer(key, ok) == ok => key \in DOMAIN partBoxes

(***************************************************************************)
(* Steps: a task runs from one await to the next                           *)
(***************************************************************************)
\* Task k has run up to t: the calls it made on the way are made.
Commit(k, t) ==
    \E ran \in {t} :
        /\ tasks' = [tasks EXCEPT ![k] = [ran EXCEPT !.out = <<>>, !.body = <<>>]]
        /\ calls' = calls \o [n \in 1..Len(ran.out) |-> [task |-> k, call |-> ran.out[n]]]

\* The same for a step that can reach client.post.
CommitPosting(k, t) ==
    \E ran \in {t} :
        /\ Commit(k, ran)
        /\ posts' = posts \o [n \in 1..Len(ran.body) |-> [task |-> k, body |-> ran.body[n]]]

\* bbox_cache[cache_key] = BoundingBox.from_api_response(bbox_data)
CachePut(bbox_cache, key, bbox_data) ==
    [c \in DOMAIN bbox_cache \cup {key} |->
        IF c = key THEN from_api_response(bbox_data) ELSE bbox_cache[c]]

\* The tool is called: it runs up to its first await.
InvokeInterference(k) ==
    /\ tasks[k].pc = "idle"
    /\ Commit(k, Await([tasks[k] EXCEPT !.op = "check_assembly_interference"],
                       "get_assembly_definition", CallDefinition))
    /\ UNCHANGED <<asm, partBoxes, manager, posts>>

InvokePositions(k) ==
    /\ tasks[k].pc = "idle"
    /\ Commit(k, Await([tasks[k] EXCEPT !.op = "get_assembly_positions"],
                       "get_assembly_definition", CallDefinition))
    /\ UNCHANGED <<asm, partBoxes, manager, posts>>

\* The definition fetch awaited in a try that takes a failure for an empty
\* assembly.
InterferenceDefinition_empty_on_failure(k) ==
    /\ tasks[k].op = "check_assembly_interference"
    /\ tasks[k].pc = "get_assembly_definition"
    /\ \E ok \in BOOLEAN :
          Commit(k, InterferenceStart(Answered(tasks[k], ok),
                        IF ok THEN asm ELSE [instances |-> <<>>, occurrences |-> <<>>]))
    /\ UNCHANGED <<asm, partBoxes, manager, posts>>

\* await assembly_manager.get_assembly_definition(...) completes.
InterferenceDefinition(k) ==
    /\ tasks[k].op = "check_assembly_interference"
    /\ tasks[k].pc = "get_assembly_definition"
    /\ \E ok \in BOOLEAN :
          Commit(k, IF ok THEN InterferenceStart(Answered(tasks[k], ok), asm)
                    ELSE Raise(Answered(tasks[k], ok), "HTTPError"))
    /\ UNCHANGED <<asm, partBoxes, manager, posts>>

\* The positions tool writing the placement it read back to the assembly,
\* every occurrence at the identity.
PositionsDefinition_resetting(k) ==
    /\ tasks[k].op = "get_assembly_positions"
    /\ tasks[k].pc = "get_assembly_definition"
    /\ \E ok \in BOOLEAN :
          Commit(k, IF ok THEN PositionsStart(Answered(tasks[k], ok), asm)
                    ELSE Raise(Answered(tasks[k], ok), "HTTPError"))
    /\ asm' = [asm EXCEPT !.occurrences =
                  [n \in 1..Len(asm.occurrences) |->
                      [asm.occurrences[n] EXCEPT !.transform = identity]]]
    /\ UNCHANGED <<partBoxes, manager, posts>>

PositionsDefinition(k) ==
    /\ tasks[k].op = "get_assembly_positions"
    /\ tasks[k].pc = "get_assembly_definition"
    /\ \E ok \in BOOLEAN :
          Commit(k, IF ok THEN PositionsStart(Answered(tasks[k], ok), asm)
                    ELSE Raise(Answered(tasks[k], ok), "HTTPError"))
    /\ UNCHANGED <<asm, partBoxes, manager, posts>>

\* The fetch awaited outside any try: its failure ends the call.
InterferenceBoundingBox_failure_aborts(k) ==
    LET t   == tasks[k]
        key == CacheKey(t.instances[t.i])
    IN  /\ t.op = "check_assembly_interference"
        /\ t.pc = "get_part_bounding_box"
        /\ \E ok \in BOOLEAN :
              /\ CanAnswer(key, ok)
              /\ Commit(k, IF ok
                           THEN InterferenceFetchLoop(
                                    [Answered(t, ok) EXCEPT
                                        !.bbox_cache = CachePut(@, key, partBoxes[key])],
                                    t.i + 1)
                           ELSE Raise(Answered(t, ok), "HTTPError"))
        /\ UNCHANGED <<asm, partBoxes, manager, posts>>

\* A bounding-box cache that is one dictionary of the module: a box fetched
\* by one invocation is in the cache of every other.
InterferenceBoundingBox_shared_cache(k) ==
    LET t   == tasks[k]
        key == CacheKey(t.instances[t.i])
    IN  /\ t.op = "check_assembly_interference"
        /\ t.pc = "get_part_bounding_box"
        /\ \E ok \in BOOLEAN :
              /\ CanAnswer(key, ok)
              /\ \E ran \in {InterferenceFetchLoop(
                                 IF ok THEN [Answered(t, ok) EXCEPT
                                                !.bbox_cache = CachePut(@, key, partBoxes[key])]
                                 ELSE Answered(t, ok), t.i + 1)} :
                    /\ tasks' = [j \in DOMAIN tasks |->
                                    IF j = k THEN [ran EXCEPT !.out = <<>>]
                                    ELSE IF ok /\ tasks[j].pc # "idle"
                                    THEN [tasks[j] EXCEPT
                                            !.bbox_cache = CachePut(@, key, partBoxes[key])]
                                    ELSE tasks[j]]
                    /\ calls' = calls \o [n \in 1..Len(ran.out) |->
                                             [task |-> k, call |-> ran.out[n]]]
        /\ UNCHANGED <<asm, partBoxes, manager, posts>>

\* await partstudio_manager.get_part_bounding_box(...) completes inside the
\* try: a failure is logged and the loop goes on with the next instance.
InterferenceBoundingBox(k) ==
    LET t   == tasks[k]
        key == CacheKey(t.instances[t.i])
    IN  /\ t.op = "check_assembly_interference"
        /\ t.pc = "get_part_bounding_box"
        /\ \E ok \in BOOLEAN :
              /\ CanAnswer(key, ok)
              /\ Commit(k, InterferenceFetchLoop(
                    IF ok THEN [Answered(t, ok) EXCEPT
                                   !.bbox_cache = CachePut(@, key, partBoxes[key])]
                    ELSE Answered(t, ok), t.i + 1))
        /\ UNCHANGED <<asm, partBoxes, manager, posts>>

PositionsBoundingBox(k) ==
    LET t   == tasks[k]
        key == CacheKey(t.instances[t.i])
    IN  /\ t.op = "get_assembly_positions"
        /\ t.pc = "get_part_bounding_box"
        /\ \E ok \in BOOLEAN :
              /\ CanAnswer(key, ok)
              /\ Commit(k, PositionsFetchLoop(
                    IF ok THEN [Answered(t, ok) EXCEPT
                                   !.bbox_cache = CachePut(@, key, partBoxes[key])]
                    ELSE Answered(t, ok), t.i + 1))
        /\ UNCHANGED <<asm, partBoxes, manager, posts>>

(***************************************************************************)
(* Assemblies and parts the tools are run on                               *)
(***************************************************************************)
\* The largest number of instances of an assembly.
MaxInstances == 3

Half == <<1, -1>>

Translation(tx, ty, tz) == [identity EXCEPT ![4] = tx, ![8] = ty, ![12] = tz]

InstanceId(n) == "i" \o ToString(n)

Instance(n, type, suppressed, documentId, elementId, partId) ==
    [id |-> InstanceId(n), name |-> "Part " \o ToString(n), type |-> type,
     suppressed |-> suppressed, documentId |-> documentId, elementId |-> elementId,
     partId |-> partId]

Occurrence(path, transform) ==
    [path |-> path, has_transform |-> TRUE, transform |-> transform]

KeyA == <<DocumentId, "e1", "p1">>
KeyB == <<DocumentId, "e1", "p2">>
KeyC == <<DocumentId, "e1", "p3">>

\* The unit cube, and a unit box lying below x = 0 but for a sliver exactly as
\* thick as the overlap tolerance.
UnitCube ==
    [lowX |-> FZero, lowY |-> FZero, lowZ |-> FZero,
     highX |-> FOne, highY |-> FOne, highZ |-> FOne]
SliverBox ==
    [lowX |-> FNeg(FOne), lowY |-> FZero, lowZ |-> FZero,
     highX |-> DefaultTolerance, highY |-> FOne, highZ |-> FOne]

\* A box of several units with faces on both sides of the origin.
LongBox ==
    [lowX |-> FZero, lowY |-> FNeg(FromInt(3)), lowZ |-> FNeg(FromInt(7)),
     highX |-> FromInt(7), highY |-> FromInt(7), highZ |-> FZero]

KnownParts ==
    [key \in {KeyA, KeyB, KeyC} |->
        IF key = KeyA THEN UnitCube ELSE IF key = KeyB THEN SliverBox ELSE LongBox]

\* What the n-th instance of an assembly can be, with its occurrences.
InstanceChoices(n) ==
    {\* part A at the origin
     [inst |-> Instance(n, "Part", FALSE, DocumentId, "e1", "p1"),
      occs |-> <<Occurrence(<<InstanceId(n)>>, Translation(FZero, FZero, FZero))>>],
     \* part A, no documentId of its own, half a unit along X
     [inst |-> Instance(n, "Part", FALSE, "None", "e1", "p1"),
      occs |-> <<Occurrence(<<InstanceId(n)>>, Translation(Half, FZero, FZero))>>],
     \* part A one unit along X, followed by a nested occurrence below it
     [inst |-> Instance(n, "Part", FALSE, DocumentId, "e1", "p1"),
      occs |-> <<Occurrence(<<InstanceId(n)>>, Translation(FOne, FZero, FZero)),
                 Occurrence(<<InstanceId(n), "sub">>, Translation(FZero, Half, FZero))>>],
     \* part B without an occurrence
     [inst |-> Instance(n, "Part", FALSE, DocumentId, "e1", "p2"), occs |-> <<>>],
     \* part A, suppressed
     [inst |-> Instance(n, "Part", TRUE, DocumentId, "e1", "p1"),
      occs |-> <<Occurrence(<<InstanceId(n)>>, Translation(FZero, FZero, FZero))>>],
     \* a sub-assembly
     [inst |-> Instance(n, "Assembly", FALSE, DocumentId, "e2", "None"),
      occs |-> <<Occurrence(<<InstanceId(n)>>, Translation(FZero, FZero, FZero)),
                 Occurrence(<<InstanceId(n), "sub">>, Translation(Half, FZero, FZero))>>],
     \* a Part instance without a partId
     [inst |-> Instance(n, "Part", FALSE, DocumentId, "e1", "None"),
      occs |-> <<Occurrence(<<InstanceId(n)>>, Translation(FZero, FZero, FZero))>>]}

RECURSIVE Concat(_)
Concat(seqs) == IF seqs = <<>> THEN <<>> ELSE Head(seqs) \o Concat(Tail(seqs))

\* The assemblies of n instances.
Assemblies(n) ==
    {[instances |-> [k \in 1..n |-> pick[k].inst],
      occurrences |-> Concat([k \in 1..n |-> pick[k].occs])] :
        pick \in {f \in [1..n -> UNION {InstanceChoices(k) : k \in 1..n}] :
                     \A k \in 1..n : f[k] \in InstanceChoices(k)}}

(***************************************************************************)
(* Interference check and position report on one assembly                  *)
(***************************************************************************)
InitInterference ==
    /\ asm \in UNION {Assemblies(n) : n \in 0..MaxInstances}
    /\ partBoxes = KnownParts
    /\ manager = "AssemblyManager"
    /\ tasks = [k \in {1} |-> IdleTask]
    /\ calls = <<>>
    /\ posts = <<>>

NextInterference ==
    \/ \E k \in DOMAIN tasks : InvokeInterference(k)
    \/ \E k \in DOMAIN tasks : InvokePositions(k)
    \/ \E k \in DOMAIN tasks : InterferenceDefinition(k)
    \/ \E k \in DOMAIN tasks : PositionsDefinition(k)
    \/ \E k \in DOMAIN tasks : InterferenceBoundingBox(k)
    \/ \E k \in DOMAIN tasks : PositionsBoundingBox(k)

SpecInterference == InitInterference /\ [][NextInterference]_vars

(***************************************************************************)
(* Occurrences of every kind                                               *)
(***************************************************************************)
\* An occurrence without a "transform" key.
BareOccurrence(path) == [path |-> path, has_transform |-> FALSE, transform |-> None]

\* What the n-th instance of an assembly can be, by its occurrences.
OccurrenceChoices(n) ==
    {\* one top-level occurrence, with a transform
     [inst |-> Instance(n, "Part", FALSE, DocumentId, "e1", "p1"),
      occs |-> <<Occurrence(<<InstanceId(n)>>, Translation(Half, FZero, FOne))>>],
     \* one top-level occurrence, without a transform
     [inst |-> Instance(n, "Part", FALSE, DocumentId, "e1", "p1"),
      occs |-> <<BareOccurrence(<<InstanceId(n)>>)>>],
     \* a nested occurrence only, and an occurrence without a path
     [inst |-> Instance(n, "Part", FALSE, DocumentId, "e1", "p1"),
      occs |-> <<Occurrence(<<InstanceId(n), "sub">>, Translation(FOne, FOne, FOne)),
                 Occurrence(<<>>, Translation(FZero, Half, FZero))>>],
     \* two top-level occurrences of the instance, a nested one between them
     [inst |-> Instance(n, "Part", FALSE, DocumentId, "e1", "p3"),
      occs |-> <<Occurrence(<<InstanceId(n)>>, Translation(FOne, FZero, FZero)),
                 Occurrence(<<InstanceId(n), "sub">>, Translation(FZero, FZero, Half)),
                 Occurrence(<<InstanceId(n)>>, Translation(FZero, FOne, Half))>>],
     \* a suppressed instance whose occurrence has no transform
     [inst |-> Instance(n, "Part", TRUE, DocumentId, "e1", "p1"),
      occs |-> <<BareOccurrence(<<InstanceId(n)>>)>>],
     \* no occurrence at all
     [inst |-> Instance(n, "Part", FALSE, DocumentId, "e1", "p2"), occs |-> <<>>]}

OccurrenceAssemblies ==
    {[instances |-> [k \in 1..2 |-> pick[k].inst],
      occurrences |-> Concat([k \in 1..2 |-> pick[k].occs])] :
        pick \in {f \in [1..2 -> OccurrenceChoices(1) \cup OccurrenceChoices(2)] :
                     \A k \in 1..2 : f[k] \in OccurrenceChoices(k)}}

InitOccurrences ==
    /\ asm \in OccurrenceAssemblies
    /\ partBoxes = KnownParts
    /\ manager = "AssemblyManager"
    /\ tasks = [k \in {1} |-> IdleTask]
    /\ calls = <<>>
    /\ posts = <<>>

SpecOccurrences == InitOccurrences /\ [][NextInterference]_vars

(***************************************************************************)
(* Two invocations at a time on one assembly                               *)
(***************************************************************************)
\* The server awaits each tool call in its own coroutine: two calls of
\* check_assembly_interference or get_assembly_positions run interleaved at
\* their awaits, against an assembly of two instances.
InitConcurrent ==
    /\ asm \in Assemblies(2)
    /\ partBoxes = KnownParts
    /\ manager = "AssemblyManager"
    /\ tasks = [k \in {1, 2} |-> IdleTask]
    /\ calls = <<>>
    /\ posts = <<>>

SpecConcurrent == InitConcurrent /\ [][NextInterference]_vars

(***************************************************************************)
(* Positioning of an instance of one assembly                              *)
(***************************************************************************)
\* A quarter turn about Z followed by a translation.
QuarterTurnZ(tx, ty, tz) ==
    <<FZero, FNeg(FOne), FZero, tx,
      FOne, FZero, FZero, ty,
      FZero, FZero, FOne, tz,
      FZero, FZero, FZero, FOne>>

Three == FromInt(3)
Seven == FromInt(7)

\* What the n-th instance of an assembly that is positioned can be.
PositionedChoices(n) ==
    {\* part A at the origin
     [inst |-> Instance(n, "Part", FALSE, DocumentId, "e1", "p1"),
      occs |-> <<Occurrence(<<InstanceId(n)>>, Translation(FZero, FZero, FZero))>>],
     \* part A away from the origin
     [inst |-> Instance(n, "Part", FALSE, "None", "e1", "p1"),
      occs |-> <<Occurrence(<<InstanceId(n)>>, Translation(Seven, Three, FNeg(Seven)))>>],
     \* part C, turned and moved
     [inst |-> Instance(n, "Part", FALSE, DocumentId, "e1", "p3"),
      occs |-> <<Occurrence(<<InstanceId(n)>>, QuarterTurnZ(FOne, FZero, Half))>>],
     \* part C at the origin
     [inst |-> Instance(n, "Part", FALSE, DocumentId, "e1", "p3"),
      occs |-> <<Occurrence(<<InstanceId(n)>>, Translation(FZero, FZero, FZero))>>],
     \* a sub-assembly
     [inst |-> Instance(n, "Assembly", FALSE, DocumentId, "e2", "None"),
      occs |-> <<Occurrence(<<InstanceId(n)>>, Translation(FZero, FZero, FZero)),
                 Occurrence(<<InstanceId(n), "sub">>, Translation(Half, FZero, FZero))>>]}

PositionedAssemblies ==
    {[instances |-> <<first.inst, second.inst>>,
      occurrences |-> first.occs \o second.occs] :
        first \in PositionedChoices(1), second \in PositionedChoices(2)}

\* The instance ids the tools are called with: two of the assembly, one not.
InstanceIds == {InstanceId(1), InstanceId(2), "i9"}

\* The inch coordinates set_absolute_position is called with.
InchesX == {FZero, Seven}
InchesY == {FZero, FNeg(Half), Three}
InchesZ == {FZero, Seven}

\* The face arguments align_to_face is called with.
FaceInputs ==
    {front, back, left, right, top, bottom,
     <<"F", "R", "O", "N", "T">>,
     <<" ", "T", "o", "p", "\n">>,
     <<"\t", "B", "A", "C", "K", " ", " ">>,
     <<"l", "e", "f", "t", "\r">>,
     <<>>,
     <<" ">>,
     <<"u", "p">>,
     <<"t", "o", " ", "p">>,
     <<"f", "r", "o", "n", "t", "s">>,
     <<"d", "i", "a", "g", "o", "n", "a", "l">>}

\* The matrices the Assembly Data Source is called with directly.
Nudges == {Translation(FOne, FZero, FZero), QuarterTurnZ(FZero, FZero, FZero)}

\* The steps of the positioning tools.
InvokeSetAbsolutePosition(k) ==
    /\ tasks[k].pc = "idle"
    /\ \E instance_id \in InstanceIds, x_inches \in InchesX, y_inches \in InchesY,
          z_inches \in InchesZ :
          CommitPosting(k, SetAbsolutePositionStart(
              [tasks[k] EXCEPT !.op = "set_absolute_position",
                               !.args = [NoArgs EXCEPT !.instance_id = instance_id,
                                                       !.x_inches = x_inches,
                                                       !.y_inches = y_inches,
                                                       !.z_inches = z_inches]]))
    /\ UNCHANGED <<asm, partBoxes, manager>>

InvokeAlign(k) ==
    /\ tasks[k].pc = "idle"
    /\ \E source_instance_id \in InstanceIds, target_instance_id \in InstanceIds,
          face \in FaceInputs :
          Commit(k, AlignStart(
              [tasks[k] EXCEPT !.op = "align_to_face",
                               !.args = [NoArgs EXCEPT
                                   !.source_instance_id = source_instance_id,
                                   !.target_instance_id = target_instance_id,
                                   !.face = face]]))
    /\ UNCHANGED <<asm, partBoxes, manager, posts>>

\* A caller of the Assembly Data Source itself, as the transform_instance tool
\* of server.py is, with or without the is_relative keyword.
InvokeTransformOccurrences(k) ==
    /\ tasks[k].pc = "idle"
    /\ \E instance_id \in InstanceIds, transform \in Nudges,
          is_relative \in {"absent", "True", "False"} :
          LET occurrences == <<[path |-> <<instance_id>>, transform |-> transform]>>
          IN  CommitPosting(k, ApplyTransform(
                  [tasks[k] EXCEPT !.op = "transform_occurrences",
                                   !.args = [NoArgs EXCEPT !.occurrences = occurrences,
                                                           !.is_relative = is_relative],
                                   !.transform = transform],
                  occurrences, is_relative))
    /\ UNCHANGED <<asm, partBoxes, manager>>

\* await assembly_manager.get_assembly_definition(...) completes.
AlignDefinition(k) ==
    /\ tasks[k].op = "align_to_face"
    /\ tasks[k].pc = "get_assembly_definition"
    /\ \E ok \in BOOLEAN :
          Commit(k, IF ok THEN AlignLookup(Answered(tasks[k], ok), asm)
                    ELSE Raise(Answered(tasks[k], ok), "HTTPError"))
    /\ UNCHANGED <<asm, partBoxes, manager, posts>>

\* The two bounding-box awaits of align_to_face stand outside any try.
AlignSourceBoundingBox(k) ==
    LET t   == tasks[k]
        key == CacheKey(t.source_inst)
    IN  /\ t.op = "align_to_face"
        /\ t.pc = "source_bounding_box"
        /\ \E ok \in BOOLEAN :
              /\ CanAnswer(key, ok)
              /\ Commit(k, IF ok THEN AlignSource(Answered(t, ok), partBoxes[key])
                           ELSE Raise(Answered(t, ok), "HTTPError"))
        /\ UNCHANGED <<asm, partBoxes, manager, posts>>

AlignTargetBoundingBox(k) ==
    LET t   == tasks[k]
        key == CacheKey(t.target_inst)
    IN  /\ t.op = "align_to_face"
        /\ t.pc = "target_bounding_box"
        /\ \E ok \in BOOLEAN :
              /\ CanAnswer(key, ok)
              /\ IF ok
                 THEN \E target_world_aabb \in {AlignTargetWorld(t, partBoxes[key])},
                         source_current_pos \in {AlignSourcePosition(t)} :
                         \E aligned \in {compute_aligned_position(
                                             t.source_local_bbox, source_current_pos,
                                             target_world_aabb, t.face)} :
                             CommitPosting(k, AlignFinish(Answered(t, ok), target_world_aabb,
                                                          source_current_pos, aligned))
                 ELSE CommitPosting(k, Raise(Answered(t, ok), "HTTPError"))
        /\ UNCHANGED <<asm, partBoxes, manager>>

\* Onshape carries out a request only for occurrences the assembly has.
CanTransform(request, ok) ==
    ok => \A n \in 1..Len(request.occurrences) :
              \E m \in 1..Len(asm.occurrences) :
                  asm.occurrences[m].path = request.occurrences[n].path

\* The text the tool returns, as the members it is formatted from.
Confirmation(t) ==
    IF t.op = "set_absolute_position"
    THEN <<"Set instance to absolute position", t.args.instance_id,
           t.args.x_inches, t.args.y_inches, t.args.z_inches>>
    ELSE IF t.op = "align_to_face"
    THEN <<"Aligned to face", t.source_inst.name, t.face, t.target_inst.name,
           t.new_pos_inches[1], t.new_pos_inches[2], t.new_pos_inches[3]>>
    ELSE <<>>

\* The await of the transform in a try whose except branch falls through to
\* the return.
TransformApplied_confirming_failure(k) ==
    LET t == tasks[k]
    IN  /\ t.pc \in {"post", "apply_transform"}
        /\ \E ok \in BOOLEAN :
              /\ CanTransform(t.request, ok)
              /\ asm' = IF ok THEN Transformed(asm, t.request) ELSE asm
              /\ Commit(k, [Answered(t, ok) EXCEPT
                              !.pc = "done", !.returned = TRUE,
                              !.confirmation = Confirmation(t)])
        /\ UNCHANGED <<partBoxes, manager, posts>>

\* The await of the transform completes: the assembly is changed and the
\* tool returns, or the failure goes up to the caller.
TransformApplied(k) ==
    LET t == tasks[k]
    IN  /\ t.pc \in {"post", "apply_transform"}
        /\ \E ok \in BOOLEAN :
              /\ CanTransform(t.request, ok)
              /\ asm' = IF ok THEN Transformed(asm, t.request) ELSE asm
              /\ Commit(k, IF ok THEN [Answered(t, ok) EXCEPT
                                           !.pc = "done", !.returned = TRUE,
                                           !.confirmation = Confirmation(t)]
                           ELSE Raise(Answered(t, ok), "HTTPError"))
        /\ UNCHANGED <<partBoxes, manager, posts>>

InitPositioning ==
    /\ asm \in PositionedAssemblies
    /\ partBoxes = KnownParts
    /\ manager \in {"AssemblyManager", "DataSource"}
    /\ tasks = [k \in {1} |-> IdleTask]
    /\ calls = <<>>
    /\ posts = <<>>

NextPositioning ==
    \/ \E k \in DOMAIN tasks : InvokeSetAbsolutePosition(k)
    \/ \E k \in DOMAIN tasks : InvokeAlign(k)
    \/ \E k \in DOMAIN tasks : InvokeTransformOccurrences(k)
    \/ \E k \in DOMAIN tasks : AlignDefinition(k)
    \/ \E k \in DOMAIN tasks : AlignSourceBoundingBox(k)
    \/ \E k \in DOMAIN tasks : AlignTargetBoundingBox(k)
    \/ \E k \in DOMAIN tasks : TransformApplied(k)

SpecPositioning == InitPositioning /\ [][NextPositioning]_vars

(***************************************************************************)
(* The five tools of the server on one assembly                            *)
(***************************************************************************)
NextTools ==
    \/ \E k \in DOMAIN tasks : InvokeInterference(k)
    \/ \E k \in DOMAIN tasks : InvokePositions(k)
    \/ \E k \in DOMAIN tasks : InterferenceDefinition(k)
    \/ \E k \in DOMAIN tasks : PositionsDefinition(k)
    \/ \E k \in DOMAIN tasks : InterferenceBoundingBox(k)
    \/ \E k \in DOMAIN tasks : PositionsBoundingBox(k)
    \/ \E k \in DOMAIN tasks : InvokeSetAbsolutePosition(k)
    \/ \E k \in DOMAIN tasks : InvokeAlign(k)
    \/ \E k \in DOMAIN tasks : InvokeTransformOccurrences(k)
    \/ \E k \in DOMAIN tasks : AlignDefinition(k)
    \/ \E k \in DOMAIN tasks : AlignSourceBoundingBox(k)
    \/ \E k \in DOMAIN tasks : AlignTargetBoundingBox(k)
    \/ \E k \in DOMAIN tasks : TransformApplied(k)

SpecTools == InitPositioning /\ [][NextTools]_vars

(***************************************************************************)
(* Two positioning calls at a time on one assembly                         *)
(***************************************************************************)
\* Part A as the first instance and part C, turned and moved, as the second.
TwoCallAssemblies ==
    {a \in PositionedAssemblies :
        /\ a.instances[1].partId = "p1"
        /\ a.instances[2].partId = "p3"
        /\ a.occurrences[2].transform # identity}

\* What the two calls are called with: an alignment of the first instance
\* to itself or to the second, the first instance set along Y, the second
\* instance nudged.
TwoCallInputs ==
    \A k \in DOMAIN tasks :
        LET a == tasks[k].args
        IN  /\ tasks[k].op = "align_to_face" =>
                  /\ a.source_instance_id = InstanceId(1)
                  /\ a.target_instance_id \in {InstanceId(1), InstanceId(2)}
                  /\ a.face \in {right, top}
            /\ tasks[k].op = "set_absolute_position" =>
                  /\ a.instance_id = InstanceId(1)
                  /\ a.x_inches = FZero /\ a.z_inches = FZero
                  /\ a.y_inches \in {FZero, Three}
            /\ tasks[k].op = "transform_occurrences" =>
                  /\ a.occurrences[1].path = <<InstanceId(2)>>
                  /\ a.occurrences[1].transform = Translation(FOne, FZero, FZero)
                  /\ a.is_relative = "True"

\* The server awaits each tool call in its own coroutine: two positioning
\* calls run interleaved at their awaits.
InitTwoPositioning ==
    /\ asm \in TwoCallAssemblies
    /\ partBoxes = KnownParts
    /\ manager \in {"AssemblyManager", "DataSource"}
    /\ tasks = [k \in {1, 2} |-> IdleTask]
    /\ calls = <<>>
    /\ posts = <<>>

NextTwoPositioning == NextPositioning /\ TwoCallInputs'

SpecTwoPositioning == InitTwoPositioning /\ [][NextTwoPositioning]_vars

(***************************************************************************)
(* The box functions called on their own                                   *)
(***************************************************************************)
\* Coordinates around the origin, the tolerance among them.
Coordinates == {FNeg(FOne), FZero, DefaultTolerance, Half, FOne, FromInt(2)}

\* The extents [low, high] of a box along one axis with low <= high, and
\* those of any box, low above high too.
Intervals == {c \in Coordinates \X Coordinates : ~FGt(c[1], c[2])}
AnyIntervals == Coordinates \X Coordinates

BoxOf(x, y, z) == BoundingBox(x[1], y[1], z[1], x[2], y[2], z[2])

\* Boxes for check_overlap: every extent along X; along Y the unit extent, a
\* flat one inside it and one touching it; along Z the unit extent and one
\* of the width of the tolerance.
OverlapBoxes ==
    {BoxOf(x, y, z) : x \in Intervals,
                      y \in {<<FZero, FOne>>, <<Half, Half>>, <<FOne, FromInt(2)>>},
                      z \in {<<FZero, FOne>>, <<FZero, DefaultTolerance>>}}

Tolerances == {DefaultTolerance, FZero}

\* Boxes for get_world_aabb, inverted ones among them.
LocalBoxes ==
    {BoxOf(x, y, z) : x \in AnyIntervals,
                      y \in {<<FZero, FOne>>, <<FOne, FZero>>, <<Half, Half>>},
                      z \in {<<FNeg(FOne), FromInt(2)>>, <<FZero, DefaultTolerance>>}}

\* A quarter turn about X, and an eighth of a turn about Z with the sine and
\* cosine of 45 degrees to four places.
QuarterTurnX ==
    <<FOne, FZero, FZero, FZero,
      FZero, FZero, FNeg(FOne), FZero,
      FZero, FOne, FZero, FZero,
      FZero, FZero, FZero, FOne>>

EighthTurnZ ==
    LET r == RatToFloat(7071, 10000)
    IN  <<r, FNeg(r), FZero, FZero,
          r, r, FZero, FZero,
          FZero, FZero, FOne, FZero,
          FZero, FZero, FZero, FOne>>

Transforms ==
    {identity, Translation(Half, FNeg(FOne), FromInt(3)), QuarterTurnZ(FZero, FOne, FZero),
     QuarterTurnZ(FZero, FZero, FZero), QuarterTurnX, EighthTurnZ}

\* check_overlap(box_a, box_b, tolerance) is called and returns.
CallCheckOverlap(k) ==
    /\ tasks[k].pc = "idle"
    /\ \E box_a \in OverlapBoxes, box_b \in OverlapBoxes, tolerance \in Tolerances :
          \E value \in {check_overlap(box_a, box_b, tolerance)} :
              tasks' = [tasks EXCEPT ![k] =
                          [@ EXCEPT !.op = "check_overlap", !.pc = "done",
                                    !.returned = TRUE,
                                    !.args = [box_a |-> box_a, box_b |-> box_b,
                                              tolerance |-> tolerance],
                                    !.value = value]]
    /\ UNCHANGED <<asm, partBoxes, manager, calls, posts>>

\* get_world_aabb(local_bbox, transform) is called and returns.
CallGetWorldAabb(k) ==
    /\ tasks[k].pc = "idle"
    /\ \E local_bbox \in LocalBoxes, transform \in Transforms :
          \E value \in {get_world_aabb(local_bbox, transform)} :
              tasks' = [tasks EXCEPT ![k] =
                          [@ EXCEPT !.op = "get_world_aabb", !.pc = "done",
                                    !.returned = TRUE,
                                    !.args = [local_bbox |-> local_bbox,
                                              transform |-> transform],
                                    !.value = value]]
    /\ UNCHANGED <<asm, partBoxes, manager, calls, posts>>

\* Penetrations in inches, two of them below a thousandth.
Penetrations == {RatToFloat(1, 4000), RatToFloat(1, 2000), Half, FOne}

ReportedOverlap(x, y, z) ==
    [instance_a_name |-> "A", instance_a_id |-> "a",
     instance_b_name |-> "B", instance_b_id |-> "b",
     overlap_x_inches |-> x, overlap_y_inches |-> y, overlap_z_inches |-> z,
     overlap_volume_cubic_inches |-> FMul(FMul(x, y), z)]

\* Results of no overlap, of one, and of two.
InterferenceResults ==
    {NoResult} \cup
    {[NoResult EXCEPT !.total_instances = 2, !.total_pairs_checked = 1,
                      !.overlaps = <<ReportedOverlap(x, y, z)>>] :
        x \in Penetrations, y \in Penetrations, z \in Penetrations} \cup
    {[NoResult EXCEPT !.total_instances = 3, !.total_pairs_checked = 3,
                      !.overlaps = <<ReportedOverlap(x, y, z), ReportedOverlap(z, x, y)>>] :
        x \in Penetrations, y \in Penetrations, z \in Penetrations}

\* format_interference_result(result) is called and returns.
CallFormatInterferenceResult(k) ==
    /\ tasks[k].pc = "idle"
    /\ \E result \in InterferenceResults :
          \E value \in {format_interference_result(result)} :
              tasks' = [tasks EXCEPT ![k] =
                          [@ EXCEPT !.op = "format_interference_result", !.pc = "done",
                                    !.returned = TRUE,
                                    !.result = result,
                                    !.value = value]]
    /\ UNCHANGED <<asm, partBoxes, manager, calls, posts>>

InitGeometry ==
    /\ asm = [instances |-> <<>>, occurrences |-> <<>>]
    /\ partBoxes = KnownParts
    /\ manager = "AssemblyManager"
    /\ tasks = [k \in {1} |-> IdleTask]
    /\ calls = <<>>
    /\ posts = <<>>

NextGeometry ==
    \/ \E k \in DOMAIN tasks : CallCheckOverlap(k)
    \/ \E k \in DOMAIN tasks : CallGetWorldAabb(k)
    \/ \E k \in DOMAIN tasks : CallFormatInterferenceResult(k)

SpecGeometry == InitGeometry /\ [][NextGeometry]_vars

(***************************************************************************)
(* Properties of the interference check                                    *)
(***************************************************************************)
\* A check_assembly_interference call that has returned its result.
InterferenceReturned(t) ==
    t.op = "check_assembly_interference" /\ t.pc = "done" /\ t.returned

\* Two boxes overlap by more than the tolerance on an axis when each high end
\* lies more than the tolerance beyond each low end.
OverlapsOnAxis(lo_a, hi_a, lo_b, hi_b) ==
    /\ FGt(FSub(hi_a, lo_b), DefaultTolerance)
    /\ FGt(FSub(hi_b, lo_a), DefaultTolerance)
    /\ FGt(FSub(hi_a, lo_a), DefaultTolerance)
    /\ FGt(FSub(hi_b, lo_b), DefaultTolerance)

OverlapsOnAllAxes(a, b) ==
    /\ OverlapsOnAxis(a.low_x, a.high_x, b.low_x, b.high_x)
    /\ OverlapsOnAxis(a.low_y, a.high_y, b.low_y, b.high_y)
    /\ OverlapsOnAxis(a.low_z, a.high_z, b.low_z, b.high_z)

\* The records of the overlaps list that name instance a first and b second.
RecordsOf(overlaps, a, b) ==
    {n \in 1..Len(overlaps) :
        overlaps[n].instance_a_id = a.id /\ overlaps[n].instance_b_id = b.id}

\* C1: past the early return, the overlaps list holds exactly one record for
\* each pair of resolved instances i < j whose world boxes overlap by more than
\* the tolerance on all three axes, and no other record: none for a pair that
\* only touches, none twice, none of an instance with itself.
C1_OverlapsAreExactlyTheOverlappingPairs ==
    \A k \in DOMAIN tasks :
        LET t == tasks[k]
            w == t.world_bboxes
            o == t.result.overlaps
        IN  (InterferenceReturned(t) /\ Len(t.instances) >= 2) =>
                /\ \A i \in 1..Len(w) : \A j \in 1..Len(w) :
                      i < j =>
                        Cardinality(RecordsOf(o, w[i][1], w[j][1])) =
                            (IF OverlapsOnAllAxes(w[i][2], w[j][2]) THEN 1 ELSE 0)
                /\ \A n \in 1..Len(o) :
                      \E i \in 1..Len(w) : \E j \in 1..Len(w) :
                          i < j /\ n \in RecordsOf(o, w[i][1], w[j][1])

\* Three resolved instances of which some pair is reported and some pair, whose
\* boxes overlap on X by no more than the tolerance, is not.
C1_Witness ==
    \E k \in DOMAIN tasks :
        LET t == tasks[k]
            w == t.world_bboxes
        IN  /\ InterferenceReturned(t)
            /\ Len(w) = 3
            /\ Len(t.result.overlaps) >= 1
            /\ \E i \in 1..Len(w) : \E j \in 1..Len(w) :
                  /\ i < j
                  /\ RecordsOf(t.result.overlaps, w[i][1], w[j][1]) = {}
                  /\ FGt(FSub(w[j][2].high_x, w[i][2].low_x), FZero)
                  /\ FGt(FSub(w[i][2].high_x, w[j][2].low_x), FZero)

\* C2: total_pairs_checked = total_instances * (total_instances - 1) / 2 in
\* every returned result, and 0 in the early-return result.
C2_PairsCheckedIsAllUnorderedPairs ==
    \A k \in DOMAIN tasks :
        LET t == tasks[k]
        IN  InterferenceReturned(t) =>
                /\ 2 * t.result.total_pairs_checked =
                       t.result.total_instances * (t.result.total_instances - 1)
                /\ Len(t.instances) < 2 => t.result.total_pairs_checked = 0

C2_Witness ==
    \E k \in DOMAIN tasks :
        /\ InterferenceReturned(tasks[k])
        /\ tasks[k].result.total_instances = 3
        /\ tasks[k].result.total_pairs_checked = 3

\* The get_part_bounding_box calls task k has made for key.
FetchesOf(k, key) ==
    {n \in 1..Len(calls) :
        /\ calls[n].task = k
        /\ calls[n].call.fn = "get_part_bounding_box"
        /\ calls[n].call.key = key}

\* C3: within one call the bounding box of a (document, element, part) is
\* asked for at most once, whatever the outcome of the fetch.
C3_AtMostOneFetchPerPart ==
    \A k \in DOMAIN tasks : \A key \in DOMAIN partBoxes :
        Cardinality(FetchesOf(k, key)) <= 1

\* C10: with fewer than 2 instances in the definition the check returns at
\* once: no pairs, the raw instance count, no overlaps, a warning, and no
\* call to the Part Geometry Source.
C10_EarlyReturnBelowTwoInstances ==
    \A k \in DOMAIN tasks :
        LET t == tasks[k]
        IN  (/\ t.op = "check_assembly_interference"
             /\ t.pc \notin {"idle", "get_assembly_definition"}
             /\ t.raised # "HTTPError"
             /\ Len(asm.instances) < 2) =>
                /\ t.pc = "done" /\ t.returned
                /\ t.result.total_pairs_checked = 0
                /\ t.result.total_instances = Len(asm.instances)
                /\ t.result.overlaps = <<>>
                /\ Len(t.result.warnings) >= 1
                /\ \A n \in 1..Len(calls) :
                      calls[n].task = k => calls[n].call.fn # "get_part_bounding_box"

\* The early return on an assembly of one active part.
C10_Witness ==
    \E k \in DOMAIN tasks :
        /\ InterferenceReturned(tasks[k])
        /\ Len(tasks[k].instances) = 1
        /\ NextFetch(tasks[k].instances, <<>>, 1) = 1

(***************************************************************************)
(* Properties of the positioning tools                                     *)
(***************************************************************************)
\* The calls task k has made, and those of them that apply a transform.
CallsOf(k) == {n \in 1..Len(calls) : calls[n].task = k}

TransformCallsOf(k) ==
    {n \in CallsOf(k) : calls[n].call.fn = "transform_occurrences"}

\* The axis perpendicular to a face: 1 for X, 2 for Y, 3 for Z.
PerpendicularAxis(face) ==
    IF face \in {left, right} THEN 1 ELSE IF face \in {front, back} THEN 2 ELSE 3

\* C4: the position align_to_face applies differs from the source's
\* translation only on the axis perpendicular to the face, where it is
\* target.low - source.high for front, left and bottom and
\* target.high - source.low for back, right and top; the two other
\* coordinates equal the source's translation before the alignment.
C4_AlignChangesOnlyThePerpendicularAxis ==
    \A k \in DOMAIN tasks : \A n \in TransformCallsOf(k) :
        LET t == tasks[k]
            applied == get_position_from_transform(calls[n].call.occurrences[1].transform)
            s == t.source_local_bbox
            w == t.target_world_aabb
            axis == PerpendicularAxis(t.face)
            value ==
                CASE t.face = front  -> FSub(w.low_y, s.high_y)
                  [] t.face = back   -> FSub(w.high_y, s.low_y)
                  [] t.face = left   -> FSub(w.low_x, s.high_x)
                  [] t.face = right  -> FSub(w.high_x, s.low_x)
                  [] t.face = bottom -> FSub(w.low_z, s.high_z)
                  [] t.face = top    -> FSub(w.high_z, s.low_z)
        IN  t.op = "align_to_face" =>
                /\ applied[axis] = value
                /\ \A other \in (1..3) \ {axis} : applied[other] = t.source_current_pos[other]

\* C5: after a successful align_to_face the source's local box under the
\* applied transform touches the target's world box on the named face, the
\* facing coordinates being equal, and check_overlap finds no overlap.
C5_AlignedSourceTouchesTargetFromOutside ==
    \A k \in DOMAIN tasks :
        LET t == tasks[k]
            moved == get_world_aabb(t.source_local_bbox, t.transform)
            w == t.target_world_aabb
        IN  (t.op = "align_to_face" /\ t.pc = "done" /\ t.returned) =>
                /\ CASE t.face = front  -> moved.high_y = w.low_y
                     [] t.face = back   -> moved.low_y = w.high_y
                     [] t.face = left   -> moved.high_x = w.low_x
                     [] t.face = right  -> moved.low_x = w.high_x
                     [] t.face = bottom -> moved.high_z = w.low_z
                     [] t.face = top    -> moved.low_z = w.high_z
                /\ check_overlap(moved, w, DefaultTolerance) = None

\* The translation-only matrix of a position given in inches.
IsAbsoluteTranslation(matrix, x_inches, y_inches, z_inches) ==
    /\ <<matrix[1], matrix[2], matrix[3]>> = <<FOne, FZero, FZero>>
    /\ <<matrix[5], matrix[6], matrix[7]>> = <<FZero, FOne, FZero>>
    /\ <<matrix[9], matrix[10], matrix[11]>> = <<FZero, FZero, FOne>>
    /\ <<matrix[13], matrix[14], matrix[15], matrix[16]>> = <<FZero, FZero, FZero, FOne>>
    /\ matrix[4] = FMul(x_inches, INCHES_TO_METERS)
    /\ matrix[8] = FMul(y_inches, INCHES_TO_METERS)
    /\ matrix[12] = FMul(z_inches, INCHES_TO_METERS)

\* C6: set_absolute_position makes exactly one call, a transform apply
\* flagged absolute for the one path [instance_id] with the translation-only
\* matrix of (x, y, z) inches in meters, and once the call has been carried
\* out the instance has that matrix: the rotation it had is gone.
C6_SetAbsolutePositionAppliesOneAbsoluteTranslation ==
    \A k \in DOMAIN tasks :
        LET t == tasks[k]
            a == t.args
        IN  (t.op = "set_absolute_position" /\ t.pc # "idle") =>
                /\ Cardinality(CallsOf(k)) = 1
                /\ \A n \in CallsOf(k) :
                      /\ calls[n].call.fn = "transform_occurrences"
                      /\ calls[n].call.is_relative = "False"
                      /\ Len(calls[n].call.occurrences) = 1
                      /\ calls[n].call.occurrences[1].path = <<a.instance_id>>
                      /\ IsAbsoluteTranslation(calls[n].call.occurrences[1].transform,
                                               a.x_inches, a.y_inches, a.z_inches)
                /\ (t.pc = "done" /\ t.raised # "HTTPError") =>
                      \A m \in 1..Len(asm.occurrences) :
                          asm.occurrences[m].path = <<a.instance_id>> =>
                              IsAbsoluteTranslation(asm.occurrences[m].transform,
                                                    a.x_inches, a.y_inches, a.z_inches)

\* C7: AssemblyManager.transform_occurrences posts isRelative false and the
\* given matrix when called with is_relative=False, and isRelative true when
\* called without is_relative, so that the absolute transform of
\* set_absolute_position and align_to_face is posted as non-relative.
C7_AbsoluteRequestsArePostedNonRelative ==
    \A k \in DOMAIN tasks : \A n \in TransformCallsOf(k) :
        manager = "AssemblyManager" =>
            \E p \in 1..Len(posts) :
                /\ posts[p].task = k
                /\ posts[p].body.isRelative = (calls[n].call.is_relative # "False")
                /\ posts[p].body.transform = calls[n].call.occurrences[1].transform

\* The face a face argument names once lower-cased and trimmed: <<>> for none.
FaceDenoted(raw) ==
    CASE raw \in {front, <<"F", "R", "O", "N", "T">>} -> front
      [] raw \in {back, <<"\t", "B", "A", "C", "K", " ", " ">>} -> back
      [] raw \in {left, <<"l", "e", "f", "t", "\r">>} -> left
      [] raw = right -> right
      [] raw \in {top, <<" ", "T", "o", "p", "\n">>} -> top
      [] raw = bottom -> bottom
      [] OTHER -> <<>>

\* C8: align_to_face goes on with a face argument exactly when its
\* lower-cased, trimmed form is one of the six face names; for any other it
\* raises a ValueError naming the six before it has called any collaborator.
C8_FaceAcceptedExactlyWhenItNamesAFace ==
    \A k \in DOMAIN tasks :
        LET t == tasks[k]
            rejected == t.raised = "ValueError" /\ t.message.text = "Invalid face. Must be one of"
        IN  (t.op = "align_to_face" /\ t.pc # "idle") =>
                IF FaceDenoted(t.args.face) = <<>>
                THEN /\ t.pc = "done"
                     /\ rejected
                     /\ t.message.allowed = {front, back, left, right, top, bottom}
                     /\ CallsOf(k) = {}
                ELSE /\ ~rejected
                     /\ t.face = FaceDenoted(t.args.face)
                     /\ \E n \in CallsOf(k) :
                           /\ calls[n].call.fn = "get_assembly_definition"
                           /\ \A m \in CallsOf(k) : n <= m

\* A face with white space inside it is turned down without any call.
C8_Witness ==
    \E k \in DOMAIN tasks :
        /\ tasks[k].op = "align_to_face"
        /\ tasks[k].args.face = <<"t", "o", " ", "p">>
        /\ tasks[k].raised = "ValueError"
        /\ CallsOf(k) = {}

\* The ids of the instances of an assembly definition.
IdsOf(assembly_data) ==
    {assembly_data.instances[n].id : n \in 1..Len(assembly_data.instances)}

\* C9: with the source or the target id not among the instances of the
\* fetched definition, align_to_face raises a ValueError that names the
\* missing side, the source when both are missing, having made the
\* definition fetch and no other call, and the assembly is as it was.
C9_MissingInstanceFailsBeforeAnyBoundingBoxFetch ==
    \A k \in DOMAIN tasks :
        LET t == tasks[k]
            a == t.args
            source_missing == a.source_instance_id \notin IdsOf(t.assembly_data)
            target_missing == a.target_instance_id \notin IdsOf(t.assembly_data)
        IN  (/\ t.op = "align_to_face"
             /\ t.assembly_data # None
             /\ source_missing \/ target_missing) =>
                /\ t.pc = "done"
                /\ t.raised = "ValueError"
                /\ t.message.text = (IF source_missing
                                     THEN "Source instance not found in assembly"
                                     ELSE "Target instance not found in assembly")
                /\ t.message.instance_id = (IF source_missing THEN a.source_instance_id
                                            ELSE a.target_instance_id)
                /\ Cardinality(CallsOf(k)) = 1
                /\ \A n \in CallsOf(k) : calls[n].call.fn = "get_assembly_definition"
                /\ posts = <<>>
                /\ asm = t.assembly_data

\* Neither the source nor the target is in the assembly.
C9_Witness ==
    \E k \in DOMAIN tasks :
        /\ tasks[k].op = "align_to_face"
        /\ tasks[k].assembly_data # None
        /\ tasks[k].args.source_instance_id \notin IdsOf(tasks[k].assembly_data)
        /\ tasks[k].args.target_instance_id \notin IdsOf(tasks[k].assembly_data)
        /\ tasks[k].raised = "ValueError"

(***************************************************************************)
(* Degenerate inputs and failed fetches (C11-C15)                          *)
(***************************************************************************)
\* The instances of a call that resolved to a world box.
ResolvedOf(t) == Resolved(t.instances, t.bbox_cache)

\* C11: whenever fewer than two instances of a check_assembly_interference
\* call resolve to a world box, the result returned has zero pairs checked
\* and carries a warning.
C11_FewerThanTwoResolvedCarriesAWarning ==
    \A k \in DOMAIN tasks :
        LET t == tasks[k]
        IN  (InterferenceReturned(t) /\ Len(ResolvedOf(t)) < 2) =>
                /\ t.result.total_pairs_checked = 0
                /\ t.result.overlaps = <<>>
                /\ t.result.warnings # <<>>

\* An instance both loops pass over: not a Part, or suppressed.
Skipped(inst) == inst.type # "Part" \/ inst.suppressed

PositionsReturned(t) ==
    t.op = "get_assembly_positions" /\ t.pc = "done" /\ t.returned

\* C12: a suppressed or non-Part instance never causes a bounding-box fetch,
\* is never counted in total_instances of a result past the early return, is
\* in no tested pair, and is no row of the positions report.
C12_SkippedInstancesTakeNoPart ==
    \A k \in DOMAIN tasks :
        LET t == tasks[k]
            skipped == {n \in 1..Len(t.instances) : Skipped(t.instances[n])}
            active  == {n \in 1..Len(t.instances) : ~Skipped(t.instances[n])}
        IN  /\ t.pc = "get_part_bounding_box" => t.i \in active
            /\ \A n \in 1..Len(calls) :
                   (calls[n].task = k /\ calls[n].call.fn = "get_part_bounding_box") =>
                       \E a \in 1..Len(asm.instances) :
                           /\ ~Skipped(asm.instances[a])
                           /\ CacheKey(asm.instances[a]) = calls[n].call.key
            /\ (InterferenceReturned(t) /\ Len(t.instances) >= 2) =>
                   /\ t.result.total_instances =
                          Cardinality({n \in active :
                              CacheKey(t.instances[n]) \in DOMAIN t.bbox_cache})
                   /\ \A n \in skipped, r \in 1..Len(t.result.overlaps) :
                          /\ t.result.overlaps[r].instance_a_id # t.instances[n].id
                          /\ t.result.overlaps[r].instance_b_id # t.instances[n].id
                   /\ \A n \in skipped, w \in 1..Len(t.world_bboxes) :
                          t.world_bboxes[w][1] # t.instances[n]
            /\ PositionsReturned(t) =>
                   \A n \in skipped, r \in 1..Len(t.positions) :
                       t.positions[r].instance_id # t.instances[n].id

\* A check and a report are returned for an assembly that has, next to a
\* resolved instance, a skipped instance of a part whose box was fetched.
C12_Witness ==
    \E k \in DOMAIN tasks :
        LET t == tasks[k]
        IN  /\ InterferenceReturned(t) \/ PositionsReturned(t)
            /\ Len(t.instances) >= 2
            /\ Len(t.world_bboxes) >= 1
            /\ \E n \in 1..Len(t.instances) :
                   /\ Skipped(t.instances[n])
                   /\ CacheKey(t.instances[n]) \in DOMAIN t.bbox_cache

\* The instances of task t for which a fetch was awaited and failed, and the
\* parts for which one was awaited and answered.
FailedFetches(t) ==
    {n \in 1..Len(t.answers) :
        t.answers[n].await = "get_part_bounding_box" /\ ~t.answers[n].ok}

FetchedParts(t) ==
    {CacheKey(t.instances[t.answers[n].i]) :
        n \in {m \in 1..Len(t.answers) :
                  t.answers[m].await = "get_part_bounding_box" /\ t.answers[m].ok}}

\* The non-suppressed Part instances whose part's box was fetched.
Fetched(t) ==
    {n \in 1..Len(t.instances) :
        ~Skipped(t.instances[n]) /\ CacheKey(t.instances[n]) \in FetchedParts(t)}

\* C13: a failed bounding-box fetch does not abort check_assembly_interference
\* or get_assembly_positions: the call goes on and returns, and every
\* non-suppressed Part instance whose part's box was fetched is counted,
\* tested against the others and reported.
C13_FailedFetchDoesNotAbort ==
    \A k \in DOMAIN tasks :
        LET t == tasks[k]
            n == Cardinality(Fetched(t))
        IN  (t.op \in {"check_assembly_interference", "get_assembly_positions"}
                /\ FailedFetches(t) # {}) =>
                /\ t.raised = ""
                /\ t.pc \in {"get_part_bounding_box", "done"}
                /\ t.pc = "done" => t.returned
                /\ InterferenceReturned(t) =>
                       /\ t.result.total_instances = n
                       /\ 2 * t.result.total_pairs_checked = n * (n - 1)
                       /\ \A a \in Fetched(t) :
                              \E w \in 1..Len(t.world_bboxes) :
                                  t.world_bboxes[w][1] = t.instances[a]
                /\ PositionsReturned(t) =>
                       /\ Len(t.positions) = n
                       /\ \A a \in Fetched(t) :
                              \E r \in 1..Len(t.positions) :
                                  t.positions[r].instance_id = t.instances[a].id

\* Both tools return after a fetch that failed and a fetch that did not.
C13_Witness ==
    \E k \in DOMAIN tasks :
        LET t == tasks[k]
        IN  /\ InterferenceReturned(t) \/ PositionsReturned(t)
            /\ FailedFetches(t) # {}
            /\ Cardinality(Fetched(t)) >= 2

\* C14: an instance for which the bounding-box fetch failed is excluded from
\* everything that follows in the call: it is not counted, is in no tested
\* pair and is no row of the report, also when a later instance of the same
\* part is fetched.
C14_FailedInstanceIsExcluded ==
    \A k \in DOMAIN tasks :
        LET t == tasks[k]
        IN  (InterferenceReturned(t) \/ PositionsReturned(t)) =>
                \A f \in FailedFetches(t) :
                    LET inst == t.instances[t.answers[f].i]
                    IN  /\ \A w \in 1..Len(t.world_bboxes) : t.world_bboxes[w][1] # inst
                        /\ \A r \in 1..Len(t.positions) :
                               t.positions[r].instance_id # inst.id
                        /\ \A r \in 1..Len(t.result.overlaps) :
                               /\ t.result.overlaps[r].instance_a_id # inst.id
                               /\ t.result.overlaps[r].instance_b_id # inst.id

\* The definition fetch of task t failed.
DefinitionFailed(t) ==
    /\ t.answers # <<>>
    /\ t.answers[1].await = "get_assembly_definition"
    /\ ~t.answers[1].ok

\* C15: when the fetch of the assembly definition fails,
\* check_assembly_interference, get_assembly_positions and align_to_face let
\* the failure go up at once: the definition fetch is the only call the
\* invocation ever makes (no bounding-box fetch, no transform), nothing is
\* posted, and no result, report or confirmation is returned.
C15_DefinitionFailurePropagatesAtOnce ==
    \A k \in DOMAIN tasks :
        LET t == tasks[k]
        IN  (t.op \in {"check_assembly_interference", "get_assembly_positions",
                       "align_to_face"}
                /\ DefinitionFailed(t)) =>
                /\ t.pc = "done"
                /\ t.raised = "HTTPError"
                /\ ~t.returned
                /\ t.result = NoResult /\ t.positions = <<>> /\ t.confirmation = <<>>
                /\ \A n \in CallsOf(k) : calls[n].call = CallDefinition
                /\ Cardinality(CallsOf(k)) = 1
                /\ \A n \in 1..Len(posts) : posts[n].task # k

\* align_to_face ends with the failure of its definition fetch.
C15_Witness ==
    \E k \in DOMAIN tasks :
        /\ tasks[k].op = "align_to_face"
        /\ DefinitionFailed(tasks[k])
        /\ tasks[k].pc = "done"

(***************************************************************************)
(* The order of the steps of the two write tools (C16)                     *)
(***************************************************************************)
\* The calls task k has made, in the order it made them.
CallSeqOf(k) ==
    LET own == SelectSeq(calls, LAMBDA c : c.task = k)
    IN  [n \in 1..Len(own) |-> own[n].call]

\* The key of the bounding box of the instance of the assembly with the id.
KeyOfInstance(id) ==
    CacheKey(CHOOSE inst \in {asm.instances[n] : n \in 1..Len(asm.instances)} : inst.id = id)

AllAnswersOk(t) == \A n \in 1..Len(t.answers) : t.answers[n].ok

\* C16: set_absolute_position and align_to_face make the transform call at
\* most once per invocation; align_to_face makes it only after the face was
\* found valid, both instances were found, and the source's and then the
\* target's bounding box were fetched; a confirmation is returned only when
\* the transform call succeeded, and a failure of any step, the transform
\* call included, goes up to the caller with no confirmation.
C16_TransformOnceAndOnlyAfterEveryStepSucceeded ==
    \A k \in DOMAIN tasks :
        LET t == tasks[k]
            made == CallSeqOf(k)
            a == t.args
        IN  t.op \in {"set_absolute_position", "align_to_face"} =>
                /\ Cardinality(TransformCallsOf(k)) <= 1
                /\ (t.op = "align_to_face" /\ TransformCallsOf(k) # {}) =>
                       /\ FaceDenoted(a.face) # <<>>
                       /\ {a.source_instance_id, a.target_instance_id} \subseteq IdsOf(asm)
                       /\ Len(made) = 4
                       /\ made[1] = CallDefinition
                       /\ made[2] = CallBoundingBox(KeyOfInstance(a.source_instance_id))
                       /\ made[3] = CallBoundingBox(KeyOfInstance(a.target_instance_id))
                       /\ made[4].fn = "transform_occurrences"
                       /\ Len(t.answers) >= 3
                       /\ \A n \in 1..3 : t.answers[n].ok
                       /\ <<t.answers[1].await, t.answers[2].await, t.answers[3].await>> =
                              <<"get_assembly_definition", "source_bounding_box",
                                "target_bounding_box">>
                /\ (t.returned \/ t.confirmation # <<>>) =>
                       /\ t.returned /\ t.confirmation # <<>> /\ t.raised = ""
                       /\ Cardinality(TransformCallsOf(k)) = 1
                       /\ made[Len(made)].fn = "transform_occurrences"
                       /\ AllAnswersOk(t)
                       /\ t.answers # <<>>
                       /\ t.answers[Len(t.answers)].await \in {"post", "apply_transform"}
                /\ (~AllAnswersOk(t) \/ t.raised # "") =>
                       /\ t.pc = "done" /\ t.raised # ""
                       /\ ~t.returned /\ t.confirmation = <<>>

\* align_to_face has returned its confirmation after its four calls.
C16_Witness ==
    \E k \in DOMAIN tasks :
        LET t == tasks[k]
        IN  /\ t.op = "align_to_face"
            /\ Len(CallSeqOf(k)) = 4
            /\ t.pc = "done"
            /\ t.returned
            /\ t.confirmation # <<>>

(***************************************************************************)
(* Interleaved invocations (C17)                                           *)
(***************************************************************************)
\* The coroutine t, standing at an await, resumed with the value (ok) or the
\* exception of the call it awaits, and run up to its next await or its end.
Resumed(t, ok) ==
    LET u == [Answered(t, ok) EXCEPT !.out = <<>>]
        key == CacheKey(t.instances[t.i])
        put == IF ok THEN [u EXCEPT !.bbox_cache = CachePut(@, key, partBoxes[key])] ELSE u
        ran == IF t.pc = "get_assembly_definition"
               THEN IF ~ok THEN Raise(u, "HTTPError")
                    ELSE IF t.op = "check_assembly_interference"
                    THEN InterferenceStart(u, asm)
                    ELSE PositionsStart(u, asm)
               ELSE IF t.op = "check_assembly_interference"
               THEN InterferenceFetchLoop(put, t.i + 1)
               ELSE PositionsFetchLoop(put, t.i + 1)
    IN  [ran EXCEPT !.out = <<>>]

\* The invocation run with no other beside it, its awaits meeting the given
\* answers one after the other.
RECURSIVE RunAlone(_, _)
RunAlone(t, answers) ==
    CHOOSE r \in {IF at.pc = "done" \/ answers = <<>> THEN at
                  ELSE RunAlone(Resumed(at, Head(answers).ok), Tail(answers)) :
                  at \in {t}} : TRUE

\* The tool called alone: the coroutine at its first await.
CalledAlone(op) ==
    [Await([IdleTask EXCEPT !.op = op], "get_assembly_definition", CallDefinition)
        EXCEPT !.out = <<>>]

\* C17: of two invocations of check_assembly_interference or
\* get_assembly_positions interleaved at their awaits on one assembly, each
\* returns (or raises) exactly what it does when run alone with the same
\* answers of the collaborators: each has a cache of its own and none reads
\* what the other wrote.
C17_InterleavedInvocationsReturnWhatTheyReturnAlone ==
    \A k \in DOMAIN tasks :
        \E t \in {tasks[k]} :
            t.pc = "done" =>
                \E alone \in {RunAlone(CalledAlone(t.op), t.answers)} :
                    /\ alone.pc = "done"
                    /\ alone.returned = t.returned
                    /\ alone.raised = t.raised
                    /\ alone.result = t.result
                    /\ alone.positions = t.positions
                    /\ alone.bbox_cache = t.bbox_cache

\* Both invocations have returned, each after a fetch of its own, and the
\* second began before the first ended: the fetch of one failed where the
\* fetch of the other for the same part did not.
C17_Witness ==
    /\ \A k \in DOMAIN tasks : tasks[k].pc = "done" /\ tasks[k].returned
    /\ FailedFetches(tasks[1]) # {}
    /\ FailedFetches(tasks[2]) = {}
    /\ tasks[2].bbox_cache # <<>>
    /\ tasks[1].bbox_cache # tasks[2].bbox_cache
    /\ \E n \in 1..Len(calls) - 2 :
           calls[n].task = 1 /\ calls[n + 1].task = 2 /\ calls[n + 2].task = 1

(***************************************************************************)
(* check_overlap and get_world_aabb (C18-C20)                              *)
(***************************************************************************)
OverlapReturned(t) == t.op = "check_overlap" /\ t.pc = "done" /\ t.returned

\* The least of the highs less the greatest of the lows of two boxes along
\* one axis, the lows and highs given as pairs.
LeastOf(xs) == CHOOSE x \in xs : \A y \in xs : ~FLt(y, x)
GreatestOf(xs) == CHOOSE x \in xs : \A y \in xs : ~FGt(y, x)
SharedExtent(lows, highs) == FSub(LeastOf({highs[1], highs[2]}), GreatestOf({lows[1], lows[2]}))

SharedExtents(a, b) ==
    <<SharedExtent(<<a.low_x, b.low_x>>, <<a.high_x, b.high_x>>),
      SharedExtent(<<a.low_y, b.low_y>>, <<a.high_y, b.high_y>>),
      SharedExtent(<<a.low_z, b.low_z>>, <<a.high_z, b.high_z>>)>>

\* C18: check_overlap(a, b, tol) returns a triple exactly when
\* min(high_a, high_b) - max(low_a, low_b) is strictly greater than tol on
\* all three axes, the triple being those three differences; in every other
\* case it returns None.
C18_OverlapIffAllThreeDifferencesExceedTolerance ==
    \A k \in DOMAIN tasks :
        LET t == tasks[k]
            d == SharedExtents(t.args.box_a, t.args.box_b)
        IN  OverlapReturned(t) =>
                IF \A axis \in 1..3 : FGt(d[axis], t.args.tolerance)
                THEN t.value = d
                ELSE t.value = None

\* Two boxes sharing exactly the tolerance along Z and more along X and Y:
\* None with the default tolerance.
C18_Witness ==
    \E k \in DOMAIN tasks :
        LET t == tasks[k]
            d == SharedExtents(t.args.box_a, t.args.box_b)
        IN  /\ OverlapReturned(t)
            /\ t.args.tolerance = DefaultTolerance
            /\ FGt(d[1], DefaultTolerance) /\ FGt(d[2], DefaultTolerance)
            /\ d[3] = DefaultTolerance
            /\ t.value = None

\* Box b lies inside box a, faces in common allowed.
Inside(b, a) ==
    /\ ~FLt(b.low_x, a.low_x) /\ ~FGt(b.high_x, a.high_x)
    /\ ~FLt(b.low_y, a.low_y) /\ ~FGt(b.high_y, a.high_y)
    /\ ~FLt(b.low_z, a.low_z) /\ ~FGt(b.high_z, a.high_z)

Extent(b) ==
    <<FSub(b.high_x, b.low_x), FSub(b.high_y, b.low_y), FSub(b.high_z, b.low_z)>>

\* C19 as stated: when one of the two boxes lies inside the other,
\* check_overlap, with the boxes in either order, reports an overlap that is
\* on each axis the extent of the box inside.
C19_ContainedBoxOverlapsByItsExtent ==
    \A k \in DOMAIN tasks :
        LET t == tasks[k]
        IN  OverlapReturned(t) =>
                /\ Inside(t.args.box_b, t.args.box_a) => t.value = Extent(t.args.box_b)
                /\ Inside(t.args.box_a, t.args.box_b) => t.value = Extent(t.args.box_a)

\* The box inside exceeds the tolerance along every axis.
ExceedsTolerance(b, tolerance) == \A axis \in 1..3 : FGt(Extent(b)[axis], tolerance)

\* C19 amended: when one of the two boxes lies inside the other,
\* check_overlap, with the boxes in either order, reports the extent of the
\* box inside if that extent exceeds the tolerance along every axis, and
\* None if it does not.
C19_ContainedBoxAboveToleranceOverlapsByItsExtent ==
    \A k \in DOMAIN tasks :
        LET t == tasks[k]
            a == t.args
        IN  OverlapReturned(t) =>
                /\ Inside(a.box_b, a.box_a) =>
                       t.value = IF ExceedsTolerance(a.box_b, a.tolerance)
                                 THEN Extent(a.box_b) ELSE None
                /\ Inside(a.box_a, a.box_b) =>
                       t.value = IF ExceedsTolerance(a.box_a, a.tolerance)
                                 THEN Extent(a.box_a) ELSE None

\* check_overlap has reported the extent of a first argument that lies
\* inside the second and is smaller than it along an axis.
C19_Witness ==
    \E k \in DOMAIN tasks :
        LET t == tasks[k]
            a == t.args
        IN  /\ OverlapReturned(t)
            /\ Inside(a.box_a, a.box_b)
            /\ ExceedsTolerance(a.box_a, a.tolerance)
            /\ \E axis \in 1..3 : FGt(Extent(a.box_b)[axis], Extent(a.box_a)[axis])
            /\ t.value = Extent(a.box_a)

WorldAabbReturned(t) == t.op = "get_world_aabb" /\ t.pc = "done" /\ t.returned

\* C20 as stated: get_world_aabb(box, identity) equals box, field by field,
\* for any box.
C20_IdentityLeavesAnyBoxUnchanged ==
    \A k \in DOMAIN tasks :
        LET t == tasks[k]
        IN  (WorldAabbReturned(t) /\ t.args.transform = identity) =>
                t.value = t.args.local_bbox

\* low <= high along every axis.
WellFormed(b) ==
    ~FGt(b.low_x, b.high_x) /\ ~FGt(b.low_y, b.high_y) /\ ~FGt(b.low_z, b.high_z)

\* The box with low and high exchanged along every axis where low is above
\* high.
Ordered(b) ==
    BoundingBox(FMin(b.low_x, b.high_x), FMin(b.low_y, b.high_y), FMin(b.low_z, b.high_z),
                FMax(b.low_x, b.high_x), FMax(b.low_y, b.high_y), FMax(b.low_z, b.high_z))

\* C20 amended: get_world_aabb(box, identity) equals box, field by field,
\* for any box with low <= high along every axis; for any other box it is
\* the box with low and high exchanged along the axes where low is above
\* high.
C20_IdentityLeavesAWellFormedBoxUnchanged ==
    \A k \in DOMAIN tasks :
        LET t == tasks[k]
        IN  (WorldAabbReturned(t) /\ t.args.transform = identity) =>
                /\ WellFormed(t.args.local_bbox) => t.value = t.args.local_bbox
                /\ t.value = Ordered(t.args.local_bbox)

\* get_world_aabb has returned, for the identity, a box of some extent along
\* every axis as it was given.
C20_Witness ==
    \E k \in DOMAIN tasks :
        LET t == tasks[k]
            b == t.args.local_bbox
        IN  /\ WorldAabbReturned(t)
            /\ t.args.transform = identity
            /\ FLt(b.low_x, b.high_x) /\ FLt(b.low_y, b.high_y) /\ FLt(b.low_z, b.high_z)
            /\ t.value = b

(***************************************************************************)
(* get_world_aabb under translations and rotations (C21, C22, C29)         *)
(***************************************************************************)
\* A transform with the identity for its rotation.
TranslationOnly(transform) ==
    transform = Translation(transform[4], transform[8], transform[12])

\* The box with t added to its low and to its high.
Shifted(b, t) ==
    BoundingBox(FAdd(b.low_x, t[1]), FAdd(b.low_y, t[2]), FAdd(b.low_z, t[3]),
                FAdd(b.high_x, t[1]), FAdd(b.high_y, t[2]), FAdd(b.high_z, t[3]))

\* C21 as stated: for any box and any translation-only transform,
\* get_world_aabb returns a box of the same extent along every axis whose
\* low and high are the box's low and high shifted by the translation.
C21_TranslationShiftsTheBoxAndKeepsItsExtent ==
    \A k \in DOMAIN tasks :
        LET t == tasks[k]
            a == t.args
        IN  (WorldAabbReturned(t) /\ TranslationOnly(a.transform)) =>
                /\ t.value = Shifted(a.local_bbox, get_position_from_transform(a.transform))
                /\ Extent(t.value) = Extent(a.local_bbox)

\* C21 amended: for a box with low <= high along every axis and a
\* translation-only transform, the low and the high get_world_aabb returns
\* are the float sums of the box's low and high with the translation.
C21_TranslationShiftsAWellFormedBox ==
    \A k \in DOMAIN tasks :
        LET t == tasks[k]
            a == t.args
            shifted == Shifted(a.local_bbox, get_position_from_transform(a.transform))
        IN  (WorldAabbReturned(t) /\ TranslationOnly(a.transform)
                /\ WellFormed(a.local_bbox)) =>
                t.value = shifted

\* get_world_aabb has returned, for a translation away from the origin along
\* every axis, a box of some extent along every axis.
C21_Witness ==
    \E k \in DOMAIN tasks :
        LET t == tasks[k]
            b == t.args.local_bbox
        IN  /\ WorldAabbReturned(t)
            /\ TranslationOnly(t.args.transform)
            /\ \A n \in {4, 8, 12} : t.args.transform[n] # FZero
            /\ FLt(b.low_x, b.high_x) /\ FLt(b.low_y, b.high_y) /\ FLt(b.low_z, b.high_z)
            /\ t.value # b

\* Point p lies in box b, faces included.
Contains(b, p) ==
    /\ ~FLt(p[1], b.low_x) /\ ~FGt(p[1], b.high_x)
    /\ ~FLt(p[2], b.low_y) /\ ~FGt(p[2], b.high_y)
    /\ ~FLt(p[3], b.low_z) /\ ~FGt(p[3], b.high_z)

\* A rotation about the coordinate axis (1 for X, 2 for Y, 3 for Z) with no
\* translation: the row and the column of the axis are those of the
\* identity, and so is the translation column.
RotationAbout(transform, axis) ==
    /\ \A n \in 1..4 : /\ transform[4 * (axis - 1) + n] = identity[4 * (axis - 1) + n]
                        /\ transform[4 * (n - 1) + axis] = identity[4 * (n - 1) + axis]
                        /\ transform[4 * n] = identity[4 * n]
                        /\ transform[12 + n] = identity[12 + n]

CornersContained(t) ==
    \A c \in Corners(t.args.local_bbox) :
        Contains(t.value, transform_point(t.args.transform, c))

\* C22 as stated: the box get_world_aabb returns contains the image under
\* transform_point of each of the 8 corners of the local box, and for a
\* rotation about one coordinate axis its extent along that axis equals the
\* local box's extent along it, for any local box.
C22_WorldBoxContainsCornersAndKeepsAxisExtent ==
    \A k \in DOMAIN tasks :
        LET t == tasks[k]
        IN  WorldAabbReturned(t) =>
                /\ CornersContained(t)
                /\ \A axis \in 1..3 :
                       RotationAbout(t.args.transform, axis) =>
                           Extent(t.value)[axis] = Extent(t.args.local_bbox)[axis]

\* C22 amended: the box returned contains the image of each of the 8
\* corners, for any local box and any transform; for a rotation about one
\* coordinate axis its extent along that axis equals the local box's extent
\* along it when the local box has low <= high along that axis, and the
\* extent of the box with that low and high exchanged when it has not.
C22_WorldBoxContainsCornersAndKeepsWellFormedAxisExtent ==
    \A k \in DOMAIN tasks :
        LET t == tasks[k]
        IN  WorldAabbReturned(t) =>
                /\ CornersContained(t)
                /\ \A axis \in 1..3 :
                       RotationAbout(t.args.transform, axis) =>
                           Extent(t.value)[axis] = Extent(Ordered(t.args.local_bbox))[axis]

\* get_world_aabb has returned, for the eighth of a turn about Z, a box
\* wider along X than the local box and of its extent along Z.
C22_Witness ==
    \E k \in DOMAIN tasks :
        LET t == tasks[k]
        IN  /\ WorldAabbReturned(t)
            /\ t.args.transform = EighthTurnZ
            /\ WellFormed(t.args.local_bbox)
            /\ FGt(Extent(t.value)[1], Extent(t.args.local_bbox)[1])
            /\ Extent(t.value)[3] = Extent(t.args.local_bbox)[3]

\* C29: the box get_world_aabb returns has low <= high along every axis,
\* for every local box, one with low above high included, and every
\* transform.
C29_WorldBoxIsWellFormed ==
    \A k \in DOMAIN tasks :
        WorldAabbReturned(tasks[k]) => WellFormed(tasks[k].value)

\* get_world_aabb has returned for a quarter turn and a local box with low
\* above high along two axes.
C29_Witness ==
    \E k \in DOMAIN tasks :
        LET t == tasks[k]
            b == t.args.local_bbox
        IN  /\ WorldAabbReturned(t)
            /\ t.args.transform = QuarterTurnZ(FZero, FOne, FZero)
            /\ FGt(b.low_x, b.high_x) /\ FGt(b.low_y, b.high_y)
            /\ WellFormed(t.value)

(***************************************************************************)
(* The rows of the positions report (C23)                                  *)
(***************************************************************************)
\* The transform the assembly gives the instance with the id: that of its
\* last top-level occurrence, the identity when it has none or when that
\* occurrence carries no transform.
PlacementOf(id) ==
    LET own == {n \in 1..Len(asm.occurrences) : asm.occurrences[n].path = <<id>>}
        last == CHOOSE n \in own : \A m \in own : m <= n
    IN  IF own = {} THEN identity
        ELSE IF asm.occurrences[last].has_transform THEN asm.occurrences[last].transform
        ELSE identity

Inches(x) == FMul(x, METERS_TO_INCHES)

\* C23: get_assembly_positions reports exactly one row per non-suppressed
\* Part instance whose bounding box was resolved, in the order of the
\* instance list; in each row the position is the translation (elements 3,
\* 7, 11) of the instance's top-level occurrence transform, the origin when
\* it has none, the size is world high minus world low along each axis, and
\* the world bounds are those of get_world_aabb of the local box under that
\* transform, all in inches; with no such instance the report says that no
\* instances were found.
C23_OneRowPerResolvedInstance ==
    \A k \in DOMAIN tasks :
        LET t == tasks[k]
            kept == SelectSeq(t.instances,
                        LAMBDA inst : ~Skipped(inst) /\ CacheKey(inst) \in FetchedParts(t))
        IN  PositionsReturned(t) =>
                /\ Len(t.positions) = Len(kept)
                /\ t.value.found = Len(kept)
                /\ (t.value.text = "No instances found in assembly.") = (kept = <<>>)
                /\ \A n \in 1..Len(kept) :
                       LET row == t.positions[n]
                           placed == PlacementOf(kept[n].id)
                           world == get_world_aabb(
                                        from_api_response(partBoxes[CacheKey(kept[n])]), placed)
                       IN  /\ row.instance_id = kept[n].id
                           /\ t.value.rows[n].instance_id = kept[n].id
                           /\ <<row.position_x_inches, row.position_y_inches,
                                 row.position_z_inches>> =
                                  <<Inches(placed[4]), Inches(placed[8]), Inches(placed[12])>>
                           /\ <<row.size_x_inches, row.size_y_inches, row.size_z_inches>> =
                                  <<Inches(FSub(world.high_x, world.low_x)),
                                    Inches(FSub(world.high_y, world.low_y)),
                                    Inches(FSub(world.high_z, world.low_z))>>
                           /\ <<row.world_low_x_inches, row.world_low_y_inches,
                                 row.world_low_z_inches, row.world_high_x_inches,
                                 row.world_high_y_inches, row.world_high_z_inches>> =
                                  <<Inches(world.low_x), Inches(world.low_y),
                                    Inches(world.low_z), Inches(world.high_x),
                                    Inches(world.high_y), Inches(world.high_z)>>

\* A report of two rows, the first for an instance away from the origin and
\* the second for one without an occurrence, after an instance that has no
\* row.
C23_Witness ==
    \E k \in DOMAIN tasks :
        LET t == tasks[k]
        IN  /\ PositionsReturned(t)
            /\ Len(t.instances) = 3
            /\ Len(t.positions) = 2
            /\ t.positions[1].instance_id = t.instances[2].id
            /\ t.positions[1].position_x_inches # FZero
            /\ \A n \in 1..Len(asm.occurrences) :
                   asm.occurrences[n].path # <<t.instances[3].id>>

(***************************************************************************)
(* The occurrence-transform map (C24) and the two engines (C27)            *)
(***************************************************************************)
\* Task t holds an occurrence-transform map: the definition has come and
\* the call did not return before building it.
HoldsTransformMap(t) ==
    /\ t.op \in {"check_assembly_interference", "get_assembly_positions"}
    /\ t.answers # <<>> /\ t.answers[1].ok
    /\ t.op = "check_assembly_interference" => Len(t.instances) >= 2

\* C24: the occurrence-transform map has a key exactly for the ids that are
\* the path of some occurrence of length 1; an occurrence with a longer path
\* adds and changes nothing; the value is the transform of that occurrence
\* (the last one with the path), the identity when it carries none; and an
\* instance without an entry is placed with the identity.
C24_TransformMapHoldsTheTopLevelOccurrences ==
    \A k \in DOMAIN tasks :
        LET t == tasks[k]
        IN  HoldsTransformMap(t) =>
                /\ DOMAIN t.occurrence_transforms =
                       {asm.occurrences[n].path[1] :
                           n \in {m \in 1..Len(asm.occurrences) :
                                     Len(asm.occurrences[m].path) = 1}}
                /\ \A id \in DOMAIN t.occurrence_transforms :
                       t.occurrence_transforms[id] = PlacementOf(id)
                /\ \A w \in 1..Len(t.world_bboxes) :
                       t.world_bboxes[w][2] =
                           get_world_aabb(
                               from_api_response(partBoxes[CacheKey(t.world_bboxes[w][1])]),
                               PlacementOf(t.world_bboxes[w][1].id))

\* The other of the two engines.
OtherEngine(op) ==
    IF op = "check_assembly_interference" THEN "get_assembly_positions"
    ELSE "check_assembly_interference"

\* C27: on one assembly definition of at least 2 instances and with the same
\* bounding-box answers, check_assembly_interference and
\* get_assembly_positions resolve the same instances with the same world
\* boxes: the instances counted in total_instances are the rows of the
\* positions report, and when one engine returns the other returns too,
\* also when a top-level occurrence carries no transform.
C27_BothEnginesResolveTheSameInstances ==
    \A k \in DOMAIN tasks :
        \E t \in {tasks[k]} :
            (/\ t.pc = "done"
             /\ HoldsTransformMap(t)
             /\ Len(t.instances) >= 2) =>
                \E other \in {RunAlone(CalledAlone(OtherEngine(t.op)), t.answers)} :
                    /\ other.pc = "done"
                    /\ other.returned = t.returned
                    /\ other.world_bboxes = t.world_bboxes
                    /\ \E check \in {IF t.op = "check_assembly_interference" THEN t ELSE other} :
                       \E report \in {IF t.op = "check_assembly_interference" THEN other ELSE t} :
                           /\ check.result.total_instances = Len(report.positions)
                           /\ \A n \in 1..Len(report.positions) :
                                  report.positions[n].instance_id = check.world_bboxes[n][1].id

(***************************************************************************)
(* The suggestion of the interference report (C25)                         *)
(***************************************************************************)
\* The penetrations of an overlap along X, Y, Z.
PenetrationsOf(ov) == <<ov.overlap_x_inches, ov.overlap_y_inches, ov.overlap_z_inches>>

AxisNames == <<"X", "Y", "Z">>

\* C25: for every overlap of the report, format_interference_result
\* suggests a move along the axis whose penetration is the least of the
\* three, by that amount; when two or three axes are equal at the least,
\* the axis named is the first of them in the order X, Y, Z.
C25_SuggestionNamesTheFirstAxisOfLeastPenetration ==
    \A k \in DOMAIN tasks :
        LET t == tasks[k]
        IN  (t.op = "format_interference_result" /\ t.returned) =>
                /\ Len(t.value.rows) = Len(t.result.overlaps)
                /\ \A n \in 1..Len(t.result.overlaps) :
                       LET pen == PenetrationsOf(t.result.overlaps[n])
                           least == {a \in 1..3 : \A b \in 1..3 : ~FLt(pen[b], pen[a])}
                           first == CHOOSE a \in least : \A b \in least : a <= b
                       IN  /\ t.value.rows[n].suggestion.axis = AxisNames[first]
                           /\ t.value.rows[n].suggestion.amount = Thousandths(pen[first])

\* A report of two overlaps has been formatted: in the first Y and Z are
\* equal below X, in the second X and Y are equal below Z.
C25_Witness ==
    \E k \in DOMAIN tasks :
        LET t == tasks[k]
        IN  /\ t.op = "format_interference_result" /\ t.returned
            /\ Len(t.result.overlaps) = 2
            /\ LET pen == PenetrationsOf(t.result.overlaps[1])
               IN  pen[2] = pen[3] /\ FLt(pen[2], pen[1])
            /\ t.value.rows[1].suggestion.axis = "Y"
            /\ t.value.rows[2].suggestion.axis = "X"

(***************************************************************************)
(* The two engines only read (C30)                                         *)
(***************************************************************************)
ReadOnlyTools == {"check_assembly_interference", "get_assembly_positions"}

\* C30: check_assembly_interference and get_assembly_positions only read:
\* whatever the collaborators answer, no step of theirs calls
\* transform_occurrences or posts anything, and every step leaves the
\* assembly, the transform of each occurrence with it, as it was.
C30_EnginesLeaveTheAssemblyAsItWas ==
    [][\A k \in DOMAIN tasks :
          (tasks'[k] # tasks[k] /\ tasks'[k].op \in ReadOnlyTools) =>
              /\ asm' = asm
              /\ posts' = posts
              /\ \A n \in 1..Len(calls') :
                     calls'[n].task = k => calls'[n].call.fn # "transform_occurrences"]_vars

\* get_assembly_positions has returned rows after a fetch of its own failed,
\* on an assembly with an occurrence away from the identity.
C30_Witness ==
    \E k \in DOMAIN tasks :
        LET t == tasks[k]
        IN  /\ t.op = "get_assembly_positions" /\ t.pc = "done" /\ t.returned
            /\ t.positions # <<>> /\ FailedFetches(t) # {}
            /\ \E n \in 1..Len(asm.occurrences) : asm.occurrences[n].transform # identity

(***************************************************************************)
(* align_to_face beside a set_absolute_position (C26)                      *)
(***************************************************************************)
\* Where the assembly has the instance now, in meters.
PositionOf(id) == get_position_from_transform(PlacementOf(id))

\* A set_absolute_position of the source of alignment t has taken effect
\* since t fetched the assembly definition: the call has returned and the
\* source is no longer where the fetched definition has it.
RepositionedSinceFetch(k) ==
    LET t == tasks[k]
    IN  /\ \E j \in DOMAIN tasks \ {k} :
              /\ tasks[j].op = "set_absolute_position"
              /\ tasks[j].returned
              /\ tasks[j].args.instance_id = t.args.source_instance_id
        /\ PlacementOf(t.args.source_instance_id) #
               DictGet(t.occurrence_transforms, t.args.source_instance_id, identity)

\* C26: align_to_face never overwrites a concurrent reposition with stale
\* coordinates: when a set_absolute_position of the source has taken effect
\* between the alignment's fetch of the assembly definition and its
\* transform, the alignment leaves the source's two coordinates that are not
\* perpendicular to the face as they were just before its transform.
C26_AlignKeepsAConcurrentReposition ==
    [][\A k \in DOMAIN tasks :
          (/\ tasks[k].op = "align_to_face"
           /\ tasks[k].pc \in {"post", "apply_transform"}
           /\ tasks'[k].returned
           /\ RepositionedSinceFetch(k)) =>
              \A axis \in (1..3) \ {PerpendicularAxis(tasks[k].face)} :
                  PositionOf(tasks[k].args.source_instance_id)'[axis] =
                      PositionOf(tasks[k].args.source_instance_id)[axis]]_vars

(***************************************************************************)
(* align_to_face run twice (C28)                                           *)
(***************************************************************************)
\* Alignment b is alignment a run a second time: the same arguments, a has
\* returned, and the definition b fetched has the source where a put it and
\* the target where a found it.
SecondRunOf(a, b) ==
    LET first  == tasks[a]
        second == tasks[b]
        source == first.args.source_instance_id
        target == first.args.target_instance_id
    IN  /\ a # b
        /\ first.op = "align_to_face" /\ second.op = "align_to_face"
        /\ first.returned
        /\ second.args = first.args
        /\ source # target
        /\ second.answers # <<>> /\ second.answers[1].ok
        /\ DictGet(second.occurrence_transforms, source, identity) = first.transform
        /\ DictGet(second.occurrence_transforms, target, identity) =
               DictGet(first.occurrence_transforms, target, identity)

\* C28: align_to_face is idempotent: run a second time with the same source,
\* target and face, the source other than the target and nothing else
\* changing the assembly in between, it asks for the transform the first
\* run applied, and once it has returned the source is where the first run
\* put it.
C28_SecondAlignmentAppliesTheSameTransform ==
    \A a \in DOMAIN tasks, b \in DOMAIN tasks :
        SecondRunOf(a, b) =>
            /\ tasks[b].transform # None =>
                   /\ tasks[b].transform = tasks[a].transform
                   /\ tasks[b].request = tasks[a].request
            /\ tasks[b].returned =>
                   PlacementOf(tasks[a].args.source_instance_id) = tasks[a].transform

\* Both runs have returned, and the first moved a source that stood away
\* from the origin on the two axes it keeps.
C28_Witness ==
    \E a \in DOMAIN tasks, b \in DOMAIN tasks :
        /\ SecondRunOf(a, b)
        /\ tasks[b].returned
        /\ tasks[a].face = right
        /\ tasks[a].source_current_pos[2] # FZero
        /\ tasks[a].source_current_pos[3] # FZero
        /\ tasks[a].transform #
               DictGet(tasks[a].occurrence_transforms, tasks[a].args.source_instance_id,
                       identity)

=============================================================================
